---- MODULE Spec2Model ----
(***************************************************************************)
(* A model of the session execution engine of okteto/remote                *)
(* (src/pkg/ssh/ssh.go, the revision that starts at line 220 of the file): *)
(* Server.buildCmd, Server.connectionHandler, handlePTY, handleNoTTY,      *)
(* sendErrAndExit and getExitStatusFromError.                              *)
(*                                                                         *)
(* A string is a sequence of tokens.  The tokens of a command line or of   *)
(* an environment entry are its characters; the tokens of an error text    *)
(* or of a stream are short runs of bytes.                                 *)
(***************************************************************************)
EXTENDS Integers, Sequences, FiniteSets, TLC

VARIABLES
    \* the inbound ssh.Session, as the handler reads it
    rawCommand,      \* s.RawCommand()
    sessEnv,         \* s.Environ()
    hostEnv,         \* os.Environ()
    isPty,           \* third result of s.Pty()
    termType,        \* ptyReq.Term
    agentRequested,  \* ssh.AgentRequested(s)
    \* Server.connectionHandler
    pc,              \* position of the handler goroutine
    cmdArgs,         \* cmd.Args
    cmdEnv,          \* cmd.Env
    bridgeErr,       \* the error handlePTY / handleNoTTY returned
    \* what the handler did to the session
    exitCalls,       \* the arguments of the s.Exit calls, in order
    clientStatus,    \* the exit statuses the client received
    clientOut,       \* bytes the client received on s
    clientErr,       \* bytes the client received on s.Stderr()
    errWrites,       \* byte strings handed to s.Stderr().Write by the handler
    closed,          \* s.Close() was called
    clientAlive,     \* the client end of the channel is still there
    \* the child process
    proc,            \* "none", "running", "exited"
    prog,            \* what the child does: its output and how it ends
    bufOut,          \* written by the child to stdout (or the pty), not yet copied
    bufErr,          \* written by the child to stderr, not yet copied
    wrote,           \* how many chunks the child has written, per stream
    orphan,          \* a grandchild still holds the child's output descriptors
    \* goroutines started by the bridges
    task,            \* task name -> "idle", "running", "done"
    graceElapsed,    \* the 1s ticker of handlePTY fired
    open,            \* descriptors and listeners held by the handler
    interceptors,    \* loggingWriter -> "none", "created", "flushed"
    lwCallers,       \* loggingWriter -> the goroutines that called its Write or Flush
    \* the window-change channel and the pty's window, handlePTY
    winCh,           \* events queued on winCh, oldest first
    ptyWin,          \* the window size the pty has, as TIOCSWINSZ set it
    arrived,         \* every event put on winCh, in order
    applied,         \* every setWinsize call, in order
    \* main and the authorized keys
    keysFile,        \* the file at authorizedKeysPath
    mainPc,          \* position of main
    keys,            \* main's keys, as LoadAuthorizedKeys returned it
    loadErr,         \* main's err, as LoadAuthorizedKeys returned it
    srv,             \* the ssh.Server main builds
    gate,            \* server.PublicKeyHandler is set
    auths,           \* the calls of Server.authorize: key offered, answer
    portEnv,         \* OKTETO_REMOTE_PORT in main's environment
    port,            \* main's port
    addr,            \* the port of server.Addr, once ListenAndServe is called
    \* a loggingWriter over a writer, a loggingReader over a reader
    lwBuf,           \* lw.buf
    audit,           \* the entries lw.logger got, in order
    written,         \* the bytes the wrapped writer accepted, in order
    writes,          \* the Write calls: p, what the wrapped writer got and
                     \* answered, what Write answered
    flushes,         \* what each Flush call logged
    reads,           \* the Read calls: what the wrapped reader answered, what
                     \* Read answered
    \* the sessions of one server, each in its own connectionHandler goroutine
    handlers,        \* session -> what its handler has done so far
    \* AssertBash and the host it runs on
    onPath,          \* the executables on the PATH AssertBash is called with
    release,         \* the file /etc/os-release
    assertPc,        \* position of AssertBash
    ran,             \* the commands AssertBash has run, in order
    assertErr        \* what AssertBash returned

inputs  == <<rawCommand, sessEnv, hostEnv, isPty, termType, agentRequested>>
cmdVars == <<cmdArgs, cmdEnv>>
sessOut == <<exitCalls, clientStatus, clientOut, clientErr, errWrites, closed>>
child   == <<proc, prog, bufOut, bufErr, wrote, orphan>>
win     == <<winCh, ptyWin, arrived, applied>>
boot    == <<keysFile, mainPc, keys, loadErr, srv, gate, auths, portEnv, port,
             addr>>
logw    == <<lwBuf, audit, written, writes, flushes, reads>>
session == <<inputs, pc, cmdVars, bridgeErr, sessOut, clientAlive, child, task,
             graceElapsed, open, interceptors, lwCallers>>
machine == <<onPath, release, assertPc, ran, assertErr>>
vars    == <<session, win, boot, logw, handlers, machine>>

----------------------------------------------------------------------------
\* Bounds of the model.

\* longest raw command drawn for the command builder
MaxCmdLen == 3
\* most entries of the host environment and of the session environment
MaxEnv == 2
\* most chunks the child writes to one stream
MaxOut == 2

SeqsUpTo(S, n) == UNION {[1..k -> S] : k \in 0..n}

----------------------------------------------------------------------------
\* Strings of the command builder.

Chars == {"x", " ", ";"}

\* srv.Shell, set from the constant shell of main
Shell == <<"b", "a", "s", "h">>

DashC == <<"-", "c">>

EnvKeys == {"A", "B"}

\* an entry "K=V"
Entry(k, v) == <<k, "=", v>>

HostEntries == {Entry(k, "h") : k \in EnvKeys}

SessEntries == {Entry(k, "s") : k \in EnvKeys}

\* fmt.Sprintf("%s=%s", k, v) for a one-token key and a string value
Sprintf_KV(k, v) == <<k, "=">> \o v

----------------------------------------------------------------------------
\* Server.buildCmd

\* the argument vector exec.Command(srv.Shell, args...) is given: the raw
\* command split on spaces, as s.Command() would hand it over
BuildArgs_Split(shell, raw) ==
    LET RECURSIVE Words(_, _, _)
        Words(i, cur, acc) ==
            IF i > Len(raw) THEN (IF cur = <<>> THEN acc ELSE Append(acc, cur))
            ELSE IF raw[i] = " "
                 THEN Words(i + 1, <<>>, IF cur = <<>> THEN acc ELSE Append(acc, cur))
                 ELSE Words(i + 1, Append(cur, raw[i]), acc)
    IN  IF Len(raw) = 0 THEN <<shell>> ELSE <<shell, DashC>> \o Words(1, <<>>, <<>>)

BuildArgs(shell, raw) ==
    IF Len(raw) = 0 THEN <<shell>> ELSE <<shell, DashC, raw>>

\* the session entries first, the host environment after them
BuildEnv_HostLast(host, sess) == sess \o host

BuildEnv(host, sess) == (<<>> \o host) \o sess

BuildCmd ==
    /\ pc = "begin"
    /\ cmdArgs' = BuildArgs(Shell, rawCommand)
    /\ cmdEnv' = BuildEnv(hostEnv, sessEnv)
    /\ pc' = "agent"
    /\ UNCHANGED <<machine, handlers, win, boot, logw, interceptors, lwCallers>>
    /\ UNCHANGED <<inputs, bridgeErr, sessOut, clientAlive, child, task,
                   graceElapsed, open>>

----------------------------------------------------------------------------
\* Errors, as far as the handler looks at them: the dynamic type, whether the
\* process state carries a syscall.WaitStatus, and the text of Error().

Nil == [type |-> "nil", op |-> "", waitStatus |-> FALSE, exited |-> FALSE,
        code |-> 0, text |-> <<>>]

\* exec.Command could not resolve the shell: cmd.Start returns the *exec.Error
ErrNotFound == [type |-> "exec.Error", op |-> "start", waitStatus |-> FALSE,
                exited |-> FALSE, code |-> 0,
                text |-> <<"exec: ", "bash: executable file not found in $PATH">>]

\* fork/exec of the resolved shell failed
ErrForkExec == [type |-> "os.PathError", op |-> "start", waitStatus |-> FALSE,
                exited |-> FALSE, code |-> 0,
                text |-> <<"fork/exec /bin/bash: ", "permission denied">>]

StartErrors == {ErrNotFound, ErrForkExec}

\* os.Pipe failed in cmd.StdoutPipe, cmd.StderrPipe or cmd.StdinPipe
ErrPipe == [type |-> "os.SyscallError", op |-> "pipe", waitStatus |-> FALSE,
            exited |-> FALSE, code |-> 0,
            text |-> <<"pipe: ", "too many open files">>]

\* the *exec.ExitError of a child that called exit(code), code > 0
ExitErr(code) == [type |-> "exec.ExitError", op |-> "wait", waitStatus |-> TRUE,
                  exited |-> TRUE, code |-> code,
                  text |-> <<"exit status ", ToString(code)>>]

\* the *exec.ExitError of a child that a signal killed
SignalErr == [type |-> "exec.ExitError", op |-> "wait", waitStatus |-> TRUE,
              exited |-> FALSE, code |-> 0,
              text |-> <<"signal: ", "killed">>]

\* what cmd.Wait returns for a child that ended as `end` says
WaitError(end) ==
    IF end.exited
    THEN (IF end.code = 0 THEN Nil ELSE ExitErr(end.code))
    ELSE SignalErr

\* syscall.WaitStatus.ExitStatus
ExitStatus(err) == IF err.exited THEN err.code ELSE -1

\* every error but nil is status 1, whatever the child's exit code was
getExitStatusFromError_AlwaysOne(err) == IF err.type = "nil" THEN 0 ELSE 1

\* an error that is no *exec.ExitError is status 0, as exitStatus has it
getExitStatusFromError_OtherZero(err) ==
    IF err.type = "nil" THEN 0
    ELSE IF err.type # "exec.ExitError" THEN 0
    ELSE ExitStatus(err)

getExitStatusFromError(err) ==
    IF err.type = "nil" THEN 0
    ELSE IF err.type # "exec.ExitError" THEN 1
    ELSE IF ~err.waitStatus
         THEN (IF err.exited /\ err.code = 0 THEN 0 ELSE 1)
         ELSE ExitStatus(err)

\* strings.TrimPrefix
TrimPrefix(s, prefix) ==
    IF Len(s) >= 1 /\ s[1] = prefix THEN Tail(s) ELSE s

----------------------------------------------------------------------------
\* The child: the shell, started as buildCmd says.

\* the command lines of Test_connectionHandler, and the interactive shell
Interactive == <<>>

EchoHi == <<"e", "c", "h", "o", " ", "h", "i">>

BadCommand == <<"b", "a", "d", "c", "o", "m", "m", "a", "n", "d">>

Commands == {Interactive, EchoHi, BadCommand}

Chunks(stream, n) == [i \in 1..n |-> stream \o ToString(i)]

Ends == {[exited |-> TRUE, code |-> 0], [exited |-> TRUE, code |-> 3],
         [exited |-> TRUE, code |-> 255], [exited |-> FALSE, code |-> 0]}

\* What the shell does with a command line.  "echo hi" prints hi and succeeds;
\* a command that names no executable makes the shell complain on stderr and
\* exit with 127; an interactive shell does whatever its user makes it do.
Programs(raw) ==
    IF raw = EchoHi
    THEN {[out |-> <<"hi\n">>, err |-> <<>>, end |-> [exited |-> TRUE, code |-> 0]]}
    ELSE IF raw = BadCommand
    THEN {[out |-> <<>>, err |-> <<"sh: badcommand: command not found\n">>,
           end |-> [exited |-> TRUE, code |-> 127]]}
    ELSE {[out |-> Chunks("o", n), err |-> Chunks("e", m), end |-> e] :
            n \in 0..MaxOut, m \in 0..MaxOut, e \in Ends}

NoProgram == [out |-> <<>>, err |-> <<>>, end |-> [exited |-> TRUE, code |-> 0]]

\* the child writes the next chunk of its standard output; under a pty that
\* is the terminal, otherwise the stdout pipe
ChildWriteOut ==
    /\ proc = "running"
    /\ wrote.out < Len(prog.out)
    /\ wrote' = [wrote EXCEPT !.out = @ + 1]
    /\ bufOut' = Append(bufOut, prog.out[wrote.out + 1])
    /\ UNCHANGED <<machine, handlers, win, boot, logw, interceptors, lwCallers>>
    /\ UNCHANGED <<inputs, pc, cmdVars, bridgeErr, sessOut, clientAlive, proc,
                   prog, bufErr, orphan, task, graceElapsed, open>>

\* the child writes the next chunk of its standard error; under a pty that
\* is the terminal too (pty.Start sets cmd.Stderr to the tty)
ChildWriteErr ==
    /\ proc = "running"
    /\ wrote.err < Len(prog.err)
    /\ wrote' = [wrote EXCEPT !.err = @ + 1]
    /\ IF isPty
       THEN bufOut' = Append(bufOut, prog.err[wrote.err + 1]) /\ UNCHANGED bufErr
       ELSE bufErr' = Append(bufErr, prog.err[wrote.err + 1]) /\ UNCHANGED bufOut
    /\ UNCHANGED <<machine, handlers, win, boot, logw, interceptors, lwCallers>>
    /\ UNCHANGED <<inputs, pc, cmdVars, bridgeErr, sessOut, clientAlive, proc,
                   prog, orphan, task, graceElapsed, open>>

\* the child ends; a background process it started may keep its terminal or
\* its pipes open
ChildExit ==
    /\ proc = "running"
    /\ wrote.out = Len(prog.out)
    /\ wrote.err = Len(prog.err)
    /\ proc' = "exited"
    /\ orphan' \in BOOLEAN
    /\ UNCHANGED <<machine, handlers, win, boot, logw, interceptors, lwCallers>>
    /\ UNCHANGED <<inputs, pc, cmdVars, bridgeErr, sessOut, clientAlive, prog,
                   bufOut, bufErr, wrote, task, graceElapsed, open>>

OrphanExit ==
    /\ proc = "exited"
    /\ orphan
    /\ orphan' = FALSE
    /\ UNCHANGED <<machine, handlers, win, boot, logw, interceptors, lwCallers>>
    /\ UNCHANGED <<inputs, pc, cmdVars, bridgeErr, sessOut, clientAlive, proc,
                   prog, bufOut, bufErr, wrote, task, graceElapsed, open>>

\* the client goes away: from then on writes to the session and requests on
\* it fail
ClientDisconnect ==
    /\ clientAlive
    /\ ~closed
    /\ clientAlive' = FALSE
    /\ UNCHANGED <<machine, handlers, win, boot, logw, interceptors, lwCallers>>
    /\ UNCHANGED <<inputs, pc, cmdVars, bridgeErr, sessOut, child, task,
                   graceElapsed, open>>

----------------------------------------------------------------------------
\* Server.connectionHandler, up to the bridges

\* where a return of the handler goes: the deferred l.Close(), if it was
\* registered, runs before the deferred s.Close()
ReturnPc(o) == IF "listener" \in o THEN "defer_l" ELSE "defer_s"

Agent_NotRequested ==
    /\ pc = "agent"
    /\ ~agentRequested
    /\ pc' = "dispatch"
    /\ UNCHANGED <<machine, handlers, win, boot, logw, interceptors, lwCallers>>
    /\ UNCHANGED <<inputs, cmdVars, bridgeErr, sessOut, clientAlive, child, task,
                   graceElapsed, open>>

\* the listener is started and closed on return, its address not exported
Agent_ListenerStarted_NoEnv ==
    /\ pc = "agent"
    /\ agentRequested
    /\ open' = open \cup {"listener"}
    /\ pc' = "dispatch"
    /\ UNCHANGED <<machine, handlers, win, boot, logw, interceptors, lwCallers>>
    /\ UNCHANGED <<inputs, cmdVars, bridgeErr, sessOut, clientAlive, child, task,
                   graceElapsed>>

Agent_ListenerStarted ==
    /\ pc = "agent"
    /\ agentRequested
    /\ open' = open \cup {"listener"}
    /\ cmdEnv' = Append(cmdEnv, Sprintf_KV("SSH_AUTH_SOCK", <<"/tmp/auth-agent/listener.sock">>))
    /\ pc' = "dispatch"
    /\ UNCHANGED <<machine, handlers, win, boot, logw, interceptors, lwCallers>>
    /\ UNCHANGED <<inputs, cmdArgs, bridgeErr, sessOut, clientAlive, child, task,
                   graceElapsed>>

\* the handler ends here, its deferred s.Close() skipped
Agent_ListenerFailed_NoDefer ==
    /\ pc = "agent"
    /\ agentRequested
    /\ pc' = "done"
    /\ UNCHANGED <<machine, handlers, win, boot, logw, interceptors, lwCallers>>
    /\ UNCHANGED <<inputs, cmdVars, bridgeErr, sessOut, clientAlive, child, task,
                   graceElapsed, open>>

\* ssh.NewAgentListener failed: return, before defer l.Close() is reached
Agent_ListenerFailed ==
    /\ pc = "agent"
    /\ agentRequested
    /\ pc' = "defer_s"
    /\ UNCHANGED <<machine, handlers, win, boot, logw, interceptors, lwCallers>>
    /\ UNCHANGED <<inputs, cmdVars, bridgeErr, sessOut, clientAlive, child, task,
                   graceElapsed, open>>

----------------------------------------------------------------------------
\* handlePTY

TaskNames == {"resize", "in", "out", "err"}

\* the loggingWriters of handlePTY and of handleNoTTY
PtyInterceptors == {"loggedPtyIn", "loggedSessionOut"}

PipeInterceptors == {"loggedStdin", "loggedStdout", "loggedStderr"}

Interceptors == PtyInterceptors \cup PipeInterceptors

\* newLoggingWriter for each of ws
Created(ws) == [n \in Interceptors |-> IF n \in ws THEN "created" ELSE interceptors[n]]

\* lw.Flush() of the goroutine that copied into n
Flush(n) == [interceptors EXCEPT ![n] = "flushed"]

\* the goroutine t has called Write or Flush of n
Called(n, t) == [lwCallers EXCEPT ![n] = @ \cup {t}]

Xterm == <<"xterm">>

\* the TERM entry put in front of the entries cmd.Env has
WithTerm_InFront(env) ==
    IF Len(termType) > 0 THEN <<Sprintf_KV("TERM", termType)>> \o env ELSE env

\* cmd.Env as handlePTY hands it to pty.Start
WithTerm(env) ==
    IF Len(termType) > 0 THEN Append(env, Sprintf_KV("TERM", termType)) ELSE env

\* pty.Start succeeded: the child runs on the pty, and the resize, input and
\* output goroutines are started
HandlePTY_Start ==
    /\ pc = "dispatch"
    /\ isPty
    /\ cmdEnv' = WithTerm(cmdEnv)
    /\ proc' = "running"
    /\ prog' \in Programs(rawCommand)
    /\ open' = open \cup {"ptmx"}
    /\ task' = [task EXCEPT !["resize"] = "running", !["in"] = "running",
                            !["out"] = "running"]
    /\ interceptors' = Created(PtyInterceptors)
    /\ UNCHANGED lwCallers
    /\ pc' = "pty_wait"
    /\ UNCHANGED <<machine, handlers, win, boot, logw>>
    /\ UNCHANGED <<inputs, cmdArgs, bridgeErr, sessOut, clientAlive, bufOut,
                   bufErr, wrote, orphan, graceElapsed>>

\* pty.Start failed: it has closed the pty it opened; handlePTY returns err
HandlePTY_StartFails ==
    /\ pc = "dispatch"
    /\ isPty
    /\ cmdEnv' = WithTerm(cmdEnv)
    /\ bridgeErr' \in StartErrors
    /\ pc' = "send_err"
    /\ UNCHANGED <<machine, handlers, win, boot, logw, interceptors, lwCallers>>
    /\ UNCHANGED <<inputs, cmdArgs, sessOut, clientAlive, child, task,
                   graceElapsed, open>>

\* cmd.Wait returned and its error is dropped: on to the select, whatever the
\* child's exit code
HandlePTY_Wait_DropErr ==
    /\ pc = "pty_wait"
    /\ proc = "exited"
    /\ pc' = "pty_select"
    /\ UNCHANGED <<machine, handlers, win, boot, logw, interceptors, lwCallers>>
    /\ UNCHANGED <<inputs, cmdVars, bridgeErr, sessOut, clientAlive, child, task,
                   graceElapsed, open>>

\* cmd.Wait returned: with an error handlePTY returns it at once, without the
\* select; without one it goes on to the select
HandlePTY_Wait ==
    /\ pc = "pty_wait"
    /\ proc = "exited"
    /\ LET err == WaitError(prog.end)
       IN  IF err.type # "nil"
           THEN bridgeErr' = err /\ pc' = "send_err"
           ELSE UNCHANGED bridgeErr /\ pc' = "pty_select"
    /\ UNCHANGED <<machine, handlers, win, boot, logw, interceptors, lwCallers>>
    /\ UNCHANGED <<inputs, cmdVars, sessOut, clientAlive, child, task,
                   graceElapsed, open>>

\* case <-waitCh
HandlePTY_StdoutFinished ==
    /\ pc = "pty_select"
    /\ task["out"] = "done"
    /\ pc' = "exit0"
    /\ UNCHANGED <<machine, handlers, win, boot, logw, interceptors, lwCallers>>
    /\ UNCHANGED <<inputs, cmdVars, bridgeErr, sessOut, clientAlive, child, task,
                   graceElapsed, open>>

\* the select without its ticker: only waitCh lets handlePTY go on
HandlePTY_GraceElapsed_NoTicker ==
    /\ pc = "pty_select"
    /\ task["out"] = "done"
    /\ graceElapsed' = TRUE
    /\ pc' = "exit0"
    /\ UNCHANGED <<machine, handlers, win, boot, logw, interceptors, lwCallers>>
    /\ UNCHANGED <<inputs, cmdVars, bridgeErr, sessOut, clientAlive, child, task,
                   open>>

\* case <-time.NewTicker(1 * time.Second).C
HandlePTY_GraceElapsed ==
    /\ pc = "pty_select"
    /\ graceElapsed' = TRUE
    /\ pc' = "exit0"
    /\ UNCHANGED <<machine, handlers, win, boot, logw, interceptors, lwCallers>>
    /\ UNCHANGED <<inputs, cmdVars, bridgeErr, sessOut, clientAlive, child, task,
                   open>>

----------------------------------------------------------------------------
\* handleNoTTY

Pipes == {"stdout", "stderr", "stdin"}

\* the pipes are made whatever the session asked for: a session with a pty
\* gets the pipe bridge as well
HandleNoTTY_Pipe_AnySession ==
    /\ \/ pc = "dispatch" /\ open' = open \cup {"stdout"} /\ pc' = "pipe_stderr"
       \/ pc = "pipe_stderr" /\ open' = open \cup {"stderr"} /\ pc' = "pipe_stdin"
       \/ pc = "pipe_stdin" /\ open' = open \cup {"stdin"} /\ pc' = "start"
    /\ UNCHANGED <<machine, handlers, win, boot, logw, interceptors, lwCallers>>
    /\ UNCHANGED <<inputs, cmdVars, bridgeErr, sessOut, clientAlive, child, task,
                   graceElapsed>>

\* cmd.StdoutPipe, cmd.StderrPipe, cmd.StdinPipe, one after the other
HandleNoTTY_Pipe ==
    /\ \/ pc = "dispatch" /\ ~isPty /\ open' = open \cup {"stdout"} /\ pc' = "pipe_stderr"
       \/ pc = "pipe_stderr" /\ open' = open \cup {"stderr"} /\ pc' = "pipe_stdin"
       \/ pc = "pipe_stdin" /\ open' = open \cup {"stdin"} /\ pc' = "start"
    /\ UNCHANGED <<machine, handlers, win, boot, logw, interceptors, lwCallers>>
    /\ UNCHANGED <<inputs, cmdVars, bridgeErr, sessOut, clientAlive, child, task,
                   graceElapsed>>

\* one of them failed: handleNoTTY returns err, the pipes it has stay open
HandleNoTTY_PipeFails ==
    /\ \/ pc = "dispatch" /\ ~isPty
       \/ pc \in {"pipe_stderr", "pipe_stdin"}
    /\ bridgeErr' = ErrPipe
    /\ pc' = "send_err"
    /\ UNCHANGED <<machine, handlers, win, boot, logw, interceptors, lwCallers>>
    /\ UNCHANGED <<inputs, cmdVars, sessOut, clientAlive, child, task,
                   graceElapsed, open>>

\* cmd.Start succeeded: the three copy goroutines are started
HandleNoTTY_Start ==
    /\ pc = "start"
    /\ proc' = "running"
    /\ prog' \in Programs(rawCommand)
    /\ task' = [task EXCEPT !["in"] = "running", !["out"] = "running",
                            !["err"] = "running"]
    /\ interceptors' = Created(PipeInterceptors)
    /\ UNCHANGED lwCallers
    /\ pc' = "wg_wait"
    /\ UNCHANGED <<machine, handlers, win, boot, logw>>
    /\ UNCHANGED <<inputs, cmdVars, bridgeErr, sessOut, clientAlive, bufOut,
                   bufErr, wrote, orphan, graceElapsed, open>>

\* cmd.Start failed: it has closed the pipes; handleNoTTY returns err
HandleNoTTY_StartFails ==
    /\ pc = "start"
    /\ bridgeErr' \in StartErrors
    /\ open' = open \ Pipes
    /\ pc' = "send_err"
    /\ UNCHANGED <<machine, handlers, win, boot, logw, interceptors, lwCallers>>
    /\ UNCHANGED <<inputs, cmdVars, sessOut, clientAlive, child, task,
                   graceElapsed>>

\* the process is waited on without joining the output goroutines
HandleNoTTY_WgWait_NoJoin ==
    /\ pc = "wg_wait"
    /\ pc' = "cmd_wait"
    /\ UNCHANGED <<machine, handlers, win, boot, logw, interceptors, lwCallers>>
    /\ UNCHANGED <<inputs, cmdVars, bridgeErr, sessOut, clientAlive, child, task,
                   graceElapsed, open>>

\* the input goroutine is in the WaitGroup as well
HandleNoTTY_WgWait_JoinInput ==
    /\ pc = "wg_wait"
    /\ task["in"] = "done"
    /\ task["out"] = "done"
    /\ task["err"] = "done"
    /\ pc' = "cmd_wait"
    /\ UNCHANGED <<machine, handlers, win, boot, logw, interceptors, lwCallers>>
    /\ UNCHANGED <<inputs, cmdVars, bridgeErr, sessOut, clientAlive, child, task,
                   graceElapsed, open>>

\* wg.Wait(): both output goroutines have called wg.Done
HandleNoTTY_WgWait ==
    /\ pc = "wg_wait"
    /\ task["out"] = "done"
    /\ task["err"] = "done"
    /\ pc' = "cmd_wait"
    /\ UNCHANGED <<machine, handlers, win, boot, logw, interceptors, lwCallers>>
    /\ UNCHANGED <<inputs, cmdVars, bridgeErr, sessOut, clientAlive, child, task,
                   graceElapsed, open>>

\* cmd.Wait() with its error dropped: handleNoTTY returns nil whatever the
\* child's exit code
HandleNoTTY_Wait_DropErr ==
    /\ pc = "cmd_wait"
    /\ proc = "exited"
    /\ open' = open \ Pipes
    /\ pc' = "exit0"
    /\ UNCHANGED <<machine, handlers, win, boot, logw, interceptors, lwCallers>>
    /\ UNCHANGED <<inputs, cmdVars, bridgeErr, sessOut, clientAlive, child, task,
                   graceElapsed>>

\* cmd.Wait(): reaps the child and closes the parent's ends of the pipes
HandleNoTTY_Wait ==
    /\ pc = "cmd_wait"
    /\ proc = "exited"
    /\ open' = open \ Pipes
    /\ LET err == WaitError(prog.end)
       IN  IF err.type # "nil"
           THEN bridgeErr' = err /\ pc' = "send_err"
           ELSE UNCHANGED bridgeErr /\ pc' = "exit0"
    /\ UNCHANGED <<machine, handlers, win, boot, logw, interceptors, lwCallers>>
    /\ UNCHANGED <<inputs, cmdVars, sessOut, clientAlive, child, task,
                   graceElapsed>>

----------------------------------------------------------------------------
\* The copy goroutines.  io.Copy reads a chunk and writes it, until the read
\* or the write fails.

\* a write to the session, or a request on it, gets through
Writable == clientAlive /\ ~closed

\* no more output can come: the child and all that inherited its descriptors
\* are gone (the pipe reads EOF, the pty master EIO)
SourceClosed == proc = "exited" /\ ~orphan

\* io.Copy(loggedSessionOut, f) of handlePTY, io.Copy(loggedStdout, stdout)
\* of handleNoTTY
CopyOut ==
    /\ task["out"] = "running"
    /\ \/ /\ bufOut # <<>>
          /\ bufOut' = Tail(bufOut)
          /\ IF Writable
             THEN clientOut' = Append(clientOut, Head(bufOut)) /\ UNCHANGED task
             ELSE UNCHANGED clientOut /\ task' = [task EXCEPT !["out"] = "done"]
       \/ /\ bufOut = <<>>
          /\ SourceClosed
          /\ task' = [task EXCEPT !["out"] = "done"]
          /\ UNCHANGED <<bufOut, clientOut>>
    /\ interceptors' =
           IF task'["out"] = "done"
           THEN Flush(IF isPty THEN "loggedSessionOut" ELSE "loggedStdout")
           ELSE interceptors
    /\ lwCallers' = Called(IF isPty THEN "loggedSessionOut" ELSE "loggedStdout", "out")
    /\ UNCHANGED <<machine, handlers, win, boot, logw>>
    /\ UNCHANGED <<inputs, pc, cmdVars, bridgeErr, exitCalls, clientStatus,
                   clientErr, errWrites, closed, clientAlive, proc, prog, bufErr,
                   wrote, orphan, graceElapsed, open>>

\* the stderr goroutine copies into the loggingWriter of stdout
CopyErr_SharedWriter ==
    /\ task["err"] = "running"
    /\ \/ /\ bufErr # <<>>
          /\ bufErr' = Tail(bufErr)
          /\ IF Writable
             THEN clientErr' = Append(clientErr, Head(bufErr)) /\ UNCHANGED task
             ELSE UNCHANGED clientErr /\ task' = [task EXCEPT !["err"] = "done"]
       \/ /\ bufErr = <<>>
          /\ SourceClosed
          /\ task' = [task EXCEPT !["err"] = "done"]
          /\ UNCHANGED <<bufErr, clientErr>>
    /\ interceptors' = IF task'["err"] = "done" THEN Flush("loggedStdout") ELSE interceptors
    /\ lwCallers' = Called("loggedStdout", "err")
    /\ UNCHANGED <<machine, handlers, win, boot, logw>>
    /\ UNCHANGED <<inputs, pc, cmdVars, bridgeErr, exitCalls, clientStatus,
                   clientOut, errWrites, closed, clientAlive, proc, prog, bufOut,
                   wrote, orphan, graceElapsed, open>>

\* io.Copy(loggedStderr, stderr) of handleNoTTY
CopyErr ==
    /\ task["err"] = "running"
    /\ \/ /\ bufErr # <<>>
          /\ bufErr' = Tail(bufErr)
          /\ IF Writable
             THEN clientErr' = Append(clientErr, Head(bufErr)) /\ UNCHANGED task
             ELSE UNCHANGED clientErr /\ task' = [task EXCEPT !["err"] = "done"]
       \/ /\ bufErr = <<>>
          /\ SourceClosed
          /\ task' = [task EXCEPT !["err"] = "done"]
          /\ UNCHANGED <<bufErr, clientErr>>
    /\ interceptors' = IF task'["err"] = "done" THEN Flush("loggedStderr") ELSE interceptors
    /\ lwCallers' = Called("loggedStderr", "err")
    /\ UNCHANGED <<machine, handlers, win, boot, logw>>
    /\ UNCHANGED <<inputs, pc, cmdVars, bridgeErr, exitCalls, clientStatus,
                   clientOut, errWrites, closed, clientAlive, proc, prog, bufOut,
                   wrote, orphan, graceElapsed, open>>

\* the input goroutine ends and leaves the child's stdin as it is
CopyInEnds_NoClose ==
    /\ task["in"] = "running"
    /\ task' = [task EXCEPT !["in"] = "done"]
    /\ interceptors' = IF isPty THEN interceptors ELSE Flush("loggedStdin")
    /\ lwCallers' = Called(IF isPty THEN "loggedPtyIn" ELSE "loggedStdin", "in")
    /\ UNCHANGED <<machine, handlers, win, boot, logw>>
    /\ UNCHANGED <<inputs, pc, cmdVars, bridgeErr, sessOut, clientAlive, child,
                   graceElapsed, open>>

\* io.Copy(loggedPtyIn, s) of handlePTY, io.Copy(loggedStdin, s) of
\* handleNoTTY, ends: the client sent EOF or went away, the session was closed,
\* or the child no longer reads.  handleNoTTY then closes the child's stdin.
CopyInEnds ==
    /\ task["in"] = "running"
    /\ task' = [task EXCEPT !["in"] = "done"]
    /\ open' = IF isPty THEN open ELSE open \ {"stdin"}
    /\ interceptors' = IF isPty THEN interceptors ELSE Flush("loggedStdin")
    /\ lwCallers' = Called(IF isPty THEN "loggedPtyIn" ELSE "loggedStdin", "in")
    /\ UNCHANGED <<machine, handlers, win, boot, logw>>
    /\ UNCHANGED <<inputs, pc, cmdVars, bridgeErr, sessOut, clientAlive, child,
                   graceElapsed>>

\* for ... := range winCh of handlePTY ends: the session's channel is gone,
\* the server has closed winCh, and no event is left in it
Resize_End ==
    /\ task["resize"] = "running"
    /\ ~Writable
    /\ winCh = <<>>
    /\ task' = [task EXCEPT !["resize"] = "done"]
    /\ UNCHANGED <<machine, handlers, win, boot, logw, interceptors, lwCallers>>
    /\ UNCHANGED <<inputs, pc, cmdVars, bridgeErr, sessOut, clientAlive, child,
                   graceElapsed, open>>

----------------------------------------------------------------------------
\* sendErrAndExit and the end of Server.connectionHandler

\* s.Exit(code)
Exit(code) ==
    /\ exitCalls' = Append(exitCalls, code)
    /\ clientStatus' = IF Writable THEN Append(clientStatus, code) ELSE clientStatus

\* sendErrAndExit without its first statement: the error is only logged
SendErr_Write_LogOnly ==
    /\ pc = "send_err"
    /\ pc' = "send_exit"
    /\ UNCHANGED <<machine, handlers, win, boot, logw, interceptors, lwCallers>>
    /\ UNCHANGED <<inputs, cmdVars, bridgeErr, sessOut, clientAlive, child, task,
                   graceElapsed, open>>

\* sendErrAndExit, first statement: the message goes to s.Stderr()
SendErr_Write ==
    /\ pc = "send_err"
    /\ LET msg == TrimPrefix(bridgeErr.text, "exec: ")
       IN  /\ errWrites' = Append(errWrites, msg)
           /\ clientErr' = IF Writable THEN clientErr \o msg ELSE clientErr
    /\ pc' = "send_exit"
    /\ UNCHANGED <<machine, handlers, win, boot, logw, interceptors, lwCallers>>
    /\ UNCHANGED <<inputs, cmdVars, bridgeErr, exitCalls, clientStatus, clientOut,
                   closed, clientAlive, child, task, graceElapsed, open>>

\* sendErrAndExit, second statement, with the handler's return after it
\* missing: the handler falls through to s.Exit(0)
SendErr_Exit_NoReturn ==
    /\ pc = "send_exit"
    /\ Exit(getExitStatusFromError(bridgeErr))
    /\ pc' = "exit0"
    /\ UNCHANGED <<machine, handlers, win, boot, logw, interceptors, lwCallers>>
    /\ UNCHANGED <<inputs, cmdVars, bridgeErr, clientOut, clientErr, errWrites,
                   closed, clientAlive, child, task, graceElapsed, open>>

\* sendErrAndExit, second statement: s.Exit(getExitStatusFromError(err)); the
\* handler then returns
SendErr_Exit ==
    /\ pc = "send_exit"
    /\ Exit(getExitStatusFromError(bridgeErr))
    /\ pc' = ReturnPc(open)
    /\ UNCHANGED <<machine, handlers, win, boot, logw, interceptors, lwCallers>>
    /\ UNCHANGED <<inputs, cmdVars, bridgeErr, clientOut, clientErr, errWrites,
                   closed, clientAlive, child, task, graceElapsed, open>>

\* s.Exit(0) after a bridge that returned nil
Exit0 ==
    /\ pc = "exit0"
    /\ Exit(0)
    /\ pc' = ReturnPc(open)
    /\ UNCHANGED <<machine, handlers, win, boot, logw, interceptors, lwCallers>>
    /\ UNCHANGED <<inputs, cmdVars, bridgeErr, clientOut, clientErr, errWrites,
                   closed, clientAlive, child, task, graceElapsed, open>>

\* deferred l.Close()
DeferListenerClose ==
    /\ pc = "defer_l"
    /\ open' = open \ {"listener"}
    /\ pc' = "defer_s"
    /\ UNCHANGED <<machine, handlers, win, boot, logw, interceptors, lwCallers>>
    /\ UNCHANGED <<inputs, cmdVars, bridgeErr, sessOut, clientAlive, child, task,
                   graceElapsed>>

\* deferred s.Close()
DeferSessionClose ==
    /\ pc = "defer_s"
    /\ closed' = TRUE
    /\ pc' = "done"
    /\ UNCHANGED <<machine, handlers, win, boot, logw, interceptors, lwCallers>>
    /\ UNCHANGED <<inputs, cmdVars, bridgeErr, exitCalls, clientStatus, clientOut,
                   clientErr, errWrites, clientAlive, child, task, graceElapsed,
                   open>>

----------------------------------------------------------------------------
\* One session, from the call of Server.connectionHandler on.

NoWindow == [w |-> 0, h |-> 0]

WinIdle ==
    /\ winCh = <<>>
    /\ ptyWin = NoWindow
    /\ arrived = <<>>
    /\ applied = <<>>

NilKeys == [isNil |-> TRUE, list |-> <<>>]

NoServer == [Port |-> 0, Shell |-> <<>>, AuthorizedKeys |-> NilKeys]

\* os.LookupEnv found no OKTETO_REMOTE_PORT
Unset == [ok |-> FALSE, p |-> <<>>]

DefaultPort == 2222

\* the sessions of the server, named by their clients
Sessions == {"alice", "bob"}

\* a session the server has not accepted yet
NoHandler == [pc |-> "idle", isPty |-> FALSE, agentRequested |-> FALSE,
              listener |-> FALSE, spawned |-> 0, err |-> Nil, errWrites |-> <<>>,
              exitCalls |-> <<>>, closed |-> FALSE]

ServerIdle == handlers = [i \in Sessions |-> NoHandler]

\* a host on which AssertBash has not been called
HostIdle ==
    /\ onPath = {}
    /\ release = [state |-> "missing", ids |-> <<>>]
    /\ assertPc = "lookpath"
    /\ ran = <<>>
    /\ assertErr = "nil"

BootIdle ==
    /\ keysFile = [state |-> "missing", lines |-> <<>>]
    /\ mainPc = "load"
    /\ keys = NilKeys
    /\ loadErr = "nil"
    /\ srv = NoServer
    /\ gate = FALSE
    /\ auths = <<>>
    /\ portEnv = Unset
    /\ port = DefaultPort
    /\ addr = 0

LogIdle ==
    /\ lwBuf = <<>>
    /\ audit = <<>>
    /\ written = <<>>
    /\ writes = <<>>
    /\ flushes = <<>>
    /\ reads = <<>>

HandlerIdle ==
    /\ pc = "begin"
    /\ cmdArgs = <<>>
    /\ cmdEnv = <<>>
    /\ bridgeErr = Nil
    /\ exitCalls = <<>>
    /\ clientStatus = <<>>
    /\ clientOut = <<>>
    /\ clientErr = <<>>
    /\ errWrites = <<>>
    /\ closed = FALSE
    /\ clientAlive = TRUE
    /\ proc = "none"
    /\ prog = NoProgram
    /\ bufOut = <<>>
    /\ bufErr = <<>>
    /\ wrote = [out |-> 0, err |-> 0]
    /\ orphan = FALSE
    /\ task = [t \in TaskNames |-> "idle"]
    /\ graceElapsed = FALSE
    /\ open = {}
    /\ interceptors = [n \in Interceptors |-> "none"]
    /\ lwCallers = [n \in Interceptors |-> {}]

Init ==
    /\ HostIdle
    /\ ServerIdle
    /\ rawCommand \in Commands
    /\ sessEnv = <<Entry("A", "s")>>
    /\ hostEnv = <<Entry("A", "h"), Entry("B", "h")>>
    /\ isPty \in BOOLEAN
    /\ termType \in (IF isPty THEN {<<>>, Xterm} ELSE {<<>>})
    /\ agentRequested \in BOOLEAN
    /\ HandlerIdle
    /\ WinIdle
    /\ BootIdle
    /\ LogIdle

Next ==
    \/ BuildCmd
    \/ Agent_NotRequested
    \/ Agent_ListenerStarted
    \/ Agent_ListenerFailed
    \/ HandlePTY_Start
    \/ HandlePTY_StartFails
    \/ HandlePTY_Wait
    \/ HandlePTY_StdoutFinished
    \/ HandlePTY_GraceElapsed
    \/ HandleNoTTY_Pipe
    \/ HandleNoTTY_PipeFails
    \/ HandleNoTTY_Start
    \/ HandleNoTTY_StartFails
    \/ HandleNoTTY_WgWait
    \/ HandleNoTTY_Wait
    \/ SendErr_Write
    \/ SendErr_Exit
    \/ Exit0
    \/ DeferListenerClose
    \/ DeferSessionClose
    \/ CopyOut
    \/ CopyErr
    \/ CopyInEnds
    \/ ChildWriteOut
    \/ ChildWriteErr
    \/ ChildExit
    \/ OrphanExit
    \/ ClientDisconnect
    \/ Resize_End

Spec == Init /\ [][Next]_vars

----------------------------------------------------------------------------
\* The command builder alone, over every raw command and environment within
\* the bounds.

InitCmd ==
    /\ HostIdle
    /\ ServerIdle
    /\ rawCommand \in SeqsUpTo(Chars, MaxCmdLen)
    /\ sessEnv \in SeqsUpTo(SessEntries, MaxEnv)
    /\ hostEnv \in SeqsUpTo(HostEntries, MaxEnv)
    /\ isPty = FALSE
    /\ termType = <<>>
    /\ agentRequested = FALSE
    /\ HandlerIdle
    /\ WinIdle
    /\ BootIdle
    /\ LogIdle

NextCmd == BuildCmd

SpecCmd == InitCmd /\ [][NextCmd]_vars

----------------------------------------------------------------------------
\* main and the authorized keys: LoadAuthorizedKeys, the Server main builds,
\* getServer and Server.authorize.

MaxLines == 3

MaxAuth == 2

\* A public key is its algorithm and its key blob: that is what Marshal
\* gives, and ssh.KeysEqual compares the Marshal of both keys.
Key(blob) == [alg |-> "ssh-rsa", blob |-> blob]

Marshal(k) == <<k.alg, k.blob>>

KeysEqual(ak, bk) == Marshal(ak) = Marshal(bk)

\* goodKey and badKey of the tests, and a key no file holds
GoodKey == Key("good")

BadKey == Key("bad")

Offered == {GoodKey, BadKey, Key("other")}

\* The lines of an authorized_keys file: a key with its comment, bytes that
\* hold no key, an empty line.
KeyLine(k, comment) == [kind |-> "key", key |-> k, comment |-> comment]

Garbage == [kind |-> "garbage", key |-> Key(""), comment |-> ""]

Blank == [kind |-> "blank", key |-> Key(""), comment |-> ""]

Lines == {KeyLine(GoodKey, "test@example.com"), KeyLine(GoodKey, "other@example.com"),
          KeyLine(BadKey, "test@example.com"), Garbage, Blank}

Files == {[state |-> "missing", lines |-> <<>>],
          [state |-> "unreadable", lines |-> <<>>]}
         \cup {[state |-> "present", lines |-> l] : l \in SeqsUpTo(Lines, MaxLines)}

\* ssh.ParseAuthorizedKey reads the first key of the input: it goes past the
\* lines that are empty, are comments or hold no key, returns the key of the
\* first line that holds one and the bytes after that line, and fails with
\* "ssh: no key found" when it reaches the end of the input.
RECURSIVE ParseAuthorizedKey(_)
ParseAuthorizedKey(in) ==
    IF in = <<>>
    THEN [err |-> "ssh: no key found", pubKey |-> Key(""), rest |-> <<>>]
    ELSE IF Head(in).kind = "key"
         THEN [err |-> "nil", pubKey |-> Head(in).key, rest |-> Tail(in)]
         ELSE ParseAuthorizedKey(Tail(in))

\* the loop of LoadAuthorizedKeys
RECURSIVE ParseKeys(_, _)
ParseKeys(b, authorizedKeys) ==
    IF b = <<>>
    THEN [err |-> "nil", list |-> authorizedKeys]
    ELSE LET r == ParseAuthorizedKey(b)
         IN  IF r.err # "nil"
             THEN [err |-> r.err, list |-> <<>>]
             ELSE ParseKeys(r.rest, Append(authorizedKeys, r.pubKey))

LoadAuthorizedKeys_EmptySlice(f) ==
    IF f.state = "missing"
    THEN [keys |-> NilKeys, err |-> "nil"]
    ELSE IF f.state = "unreadable"
         THEN [keys |-> NilKeys, err |-> "read"]
         ELSE LET r == ParseKeys(f.lines, <<>>)
              IN  IF r.err # "nil"
                  THEN [keys |-> NilKeys, err |-> r.err]
                  ELSE [keys |-> [isNil |-> FALSE, list |-> r.list], err |-> "nil"]

LoadAuthorizedKeys(f) ==
    IF f.state = "missing"
    THEN [keys |-> NilKeys, err |-> "nil"]
    ELSE IF f.state = "unreadable"
         THEN [keys |-> NilKeys, err |-> "read"]
         ELSE LET r == ParseKeys(f.lines, <<>>)
              IN  IF r.err # "nil"
                  THEN [keys |-> NilKeys, err |-> r.err]
                  ELSE IF Len(r.list) = 0
                       THEN [keys |-> NilKeys, err |-> "was empty"]
                       ELSE [keys |-> [isNil |-> FALSE, list |-> r.list],
                             err |-> "nil"]

authorize_FirstOnly(authorizedKeys, key) ==
    authorizedKeys # <<>> /\ KeysEqual(key, Head(authorizedKeys))

RECURSIVE authorize(_, _)
authorize(authorizedKeys, key) ==
    IF authorizedKeys = <<>>
    THEN FALSE
    ELSE IF KeysEqual(key, Head(authorizedKeys))
         THEN TRUE
         ELSE authorize(Tail(authorizedKeys), key)

\* main: keys, err := ssh.LoadAuthorizedKeys(authorizedKeysPath), and
\* log.Fatalf, which ends the process, when err is not nil
Main_Load_IgnoreErr ==
    /\ mainPc = "load"
    /\ keys' = LoadAuthorizedKeys(keysFile).keys
    /\ loadErr' = LoadAuthorizedKeys(keysFile).err
    /\ mainPc' = "construct"
    /\ UNCHANGED <<machine, handlers, session, win, logw, keysFile, srv, gate, auths, portEnv, port,
                   addr>>

Main_Load ==
    /\ mainPc = "load"
    /\ keys' = LoadAuthorizedKeys(keysFile).keys
    /\ loadErr' = LoadAuthorizedKeys(keysFile).err
    /\ mainPc' = IF loadErr' # "nil" THEN "fatal" ELSE "construct"
    /\ UNCHANGED <<machine, handlers, session, win, logw, keysFile, srv, gate, auths, portEnv, port,
                   addr>>

\* main: srv := ssh.Server{Port: port, Shell: shell, AuthorizedKeys: keys}
Main_Server ==
    /\ mainPc = "construct"
    /\ srv' = [Port |-> port, Shell |-> Shell, AuthorizedKeys |-> keys]
    /\ mainPc' = "serve"
    /\ UNCHANGED <<machine, handlers, session, win, logw, keysFile, keys, loadErr, gate, auths, portEnv,
                   port, addr>>

\* main: srv.ListenAndServe(), which has getServer build the server
Main_ListenAndServe ==
    /\ mainPc = "serve"
    /\ gate' = ~srv.AuthorizedKeys.isNil
    /\ addr' = srv.Port
    /\ mainPc' = "serving"
    /\ UNCHANGED <<machine, handlers, session, win, logw, keysFile, keys, loadErr, srv, auths, portEnv,
                   port>>

\* a client offers a public key and the server asks its PublicKeyHandler
Authorize ==
    /\ mainPc = "serving"
    /\ gate
    /\ Len(auths) < MaxAuth
    /\ \E key \in Offered :
          auths' = Append(auths, [key |-> key,
                                  ok |-> authorize(srv.AuthorizedKeys.list, key)])
    /\ UNCHANGED <<machine, handlers, session, win, logw, keysFile, mainPc, keys, loadErr, srv, gate,
                   portEnv, port, addr>>

SessionIdle ==
    /\ rawCommand = Interactive
    /\ sessEnv = <<>>
    /\ hostEnv = <<>>
    /\ isPty = FALSE
    /\ termType = <<>>
    /\ agentRequested = FALSE
    /\ HandlerIdle

InitKeys ==
    /\ HostIdle
    /\ ServerIdle
    /\ keysFile \in Files
    /\ mainPc = "load"
    /\ keys = NilKeys
    /\ loadErr = "nil"
    /\ srv = NoServer
    /\ gate = FALSE
    /\ auths = <<>>
    /\ portEnv = Unset
    /\ port = DefaultPort
    /\ addr = 0
    /\ SessionIdle
    /\ WinIdle
    /\ LogIdle

NextKeys ==
    \/ Main_Load
    \/ Main_Server
    \/ Main_ListenAndServe
    \/ Authorize

SpecKeys == InitKeys /\ [][NextKeys]_vars

----------------------------------------------------------------------------
\* main, from the port on: OKTETO_REMOTE_PORT, the authorized keys, the server.

Digits == <<"0", "1", "2", "3", "4", "5", "6", "7", "8", "9">>

IsDigit(c) == \E d \in 1..Len(Digits) : Digits[d] = c

DigitVal(c) == (CHOOSE d \in 1..Len(Digits) : Digits[d] = c) - 1

RECURSIVE Decimal(_, _)
Decimal(s, n) == IF s = <<>> THEN n ELSE Decimal(Tail(s), n * Len(Digits) + DigitVal(Head(s)))

\* strconv.Atoi: an optional sign, then decimal digits and nothing else
Atoi(s) ==
    LET signed == s # <<>> /\ Head(s) \in {"+", "-"}
        body   == IF signed THEN Tail(s) ELSE s
    IN  IF body = <<>> \/ \E i \in 1..Len(body) : ~IsDigit(body[i])
        THEN [n |-> 0, err |-> TRUE]
        ELSE [n |-> IF signed /\ Head(s) = "-" THEN 0 - Decimal(body, 0)
                    ELSE Decimal(body, 0),
              err |-> FALSE]

\* values of OKTETO_REMOTE_PORT that are no numbers, that are numbers of 1024
\* or less, and that are numbers above 1024
NotNumbers == {<<"a", "b", "c">>, <<>>, <<"2", "2", "x">>, <<" ", "8", "0">>}

ReservedPorts == {<<"1", "0", "2", "4">>, <<"8", "0">>, <<"0">>, <<"-", "1">>}

FreePorts == {<<"1", "0", "2", "5">>, <<"8", "0", "8", "0">>, <<"+", "3", "0", "0", "0">>}

PortEnvs ==
    {Unset} \cup {[ok |-> TRUE, p |-> p] : p \in NotNumbers \cup ReservedPorts \cup FreePorts}

\* the port is taken as it is, with no look at its range
Main_Port_AnyNumber ==
    /\ mainPc = "port"
    /\ IF ~portEnv.ok
       THEN port' = port /\ mainPc' = "load"
       ELSE LET r == Atoi(portEnv.p)
            IN  /\ port' = r.n
                /\ mainPc' = IF r.err THEN "panic" ELSE "load"
    /\ UNCHANGED <<machine, handlers, session, win, logw, keysFile, keys, loadErr, srv, gate, auths,
                   portEnv, addr>>

\* main: port := 2222, and OKTETO_REMOTE_PORT if it is set; panic when it is
\* no number or a number of 1024 or less
Main_Port ==
    /\ mainPc = "port"
    /\ IF ~portEnv.ok
       THEN port' = port /\ mainPc' = "load"
       ELSE LET r == Atoi(portEnv.p)
            IN  /\ port' = r.n
                /\ mainPc' = IF r.err \/ r.n <= 1024 THEN "panic" ELSE "load"
    /\ UNCHANGED <<machine, handlers, session, win, logw, keysFile, keys, loadErr, srv, gate, auths,
                   portEnv, addr>>

InitMain ==
    /\ HostIdle
    /\ ServerIdle
    /\ portEnv \in PortEnvs
    /\ keysFile \in {f \in Files : Len(f.lines) <= 1}
    /\ mainPc = "port"
    /\ keys = NilKeys
    /\ loadErr = "nil"
    /\ srv = NoServer
    /\ gate = FALSE
    /\ auths = <<>>
    /\ port = DefaultPort
    /\ addr = 0
    /\ SessionIdle
    /\ WinIdle
    /\ LogIdle

NextMain ==
    \/ Main_Port
    \/ Main_Load
    \/ Main_Server
    \/ Main_ListenAndServe
    \/ Authorize

SpecMain == InitMain /\ [][NextMain]_vars

----------------------------------------------------------------------------
\* The logging interceptors: one loggingWriter over a writer, or one
\* loggingReader over a reader.  Bytes are tokens, a byte string a sequence.

MaxData == 2

MaxCalls == 2

Bytes == {"a", "b", "\n"}

Data == SeqsUpTo(Bytes, MaxData)

\* What an io.Writer may answer to Write(p): all of p taken, or fewer bytes
\* and an error.
WriterAnswers(p) ==
    {[n |-> Len(p), err |-> "nil"]}
    \cup {[n |-> k, err |-> "closed pipe"] : k \in {Len(p) - 1} \cap 0..Len(p)}

\* What an io.Reader may answer to Read(p): the bytes it put in p, an error
ReaderAnswers ==
    {[data |-> d, err |-> "nil"] : d \in Data \ {<<>>}}
    \cup {[data |-> d, err |-> "EOF"] : d \in {<<>>, <<"a">>}}

\* bytes.LastIndexByte(s, '\n'), counted from 1; 0 when there is none
RECURSIVE LastIndexByte(_)
LastIndexByte(s) ==
    IF s = <<>> THEN 0
    ELSE IF s[Len(s)] = "\n" THEN Len(s)
         ELSE LastIndexByte(SubSeq(s, 1, Len(s) - 1))

\* bytes.TrimRight(s, "\n")
RECURSIVE TrimRight(_)
TrimRight(s) ==
    IF s # <<>> /\ s[Len(s)] = "\n" THEN TrimRight(SubSeq(s, 1, Len(s) - 1))
    ELSE s

HasSuffixNewline(s) == s # <<>> /\ s[Len(s)] = "\n"

\* The tokens of a bufio.Scanner with bufio.ScanLines over s: the bytes
\* between newlines, and the bytes after the last newline when there are any.
RECURSIVE ScanLines(_, _)
ScanLines(s, line) ==
    IF s = <<>>
    THEN (IF line = <<>> THEN <<>> ELSE <<line>>)
    ELSE IF Head(s) = "\n"
         THEN <<line>> \o ScanLines(Tail(s), <<>>)
         ELSE ScanLines(Tail(s), Append(line, Head(s)))

\* the loop of loggingWriter.Write: every token that is not empty is logged
Logged(buf) == SelectSeq(ScanLines(buf, <<>>), LAMBDA line : line # <<>>)

\* what loggingWriter.Write leaves in lw.buf after lw.buf.Reset()
Kept(pn) ==
    IF Len(TrimRight(pn)) > 0 /\ ~HasSuffixNewline(pn)
    THEN SubSeq(TrimRight(pn), LastIndexByte(TrimRight(pn)) + 1, Len(TrimRight(pn)))
    ELSE <<>>

\* loggingWriter.Write(p) with lw.buf = buf, when lw.writer answers a: what
\* lw.writer was called with, what Write returns, the entries logged and the
\* new lw.buf.
loggingWriter_Write_AllWritten(buf, p, a) ==
    [calls |-> <<p>>,
     n     |-> Len(p),
     err   |-> "nil",
     log   |-> IF a.n > 0 THEN Logged(buf \o SubSeq(p, 1, a.n)) ELSE <<>>,
     buf   |-> IF a.n > 0 THEN Kept(SubSeq(p, 1, a.n)) ELSE buf]

loggingWriter_Write(buf, p, a) ==
    [calls |-> <<p>>,
     n     |-> a.n,
     err   |-> a.err,
     log   |-> IF a.n > 0 THEN Logged(buf \o SubSeq(p, 1, a.n)) ELSE <<>>,
     buf   |-> IF a.n > 0 THEN Kept(SubSeq(p, 1, a.n)) ELSE buf]

\* strings.TrimSpace, and the %q of the entry of loggingReader.Read
RECURSIVE TrimLeft(_)
TrimLeft(s) == IF s # <<>> /\ Head(s) = "\n" THEN TrimLeft(Tail(s)) ELSE s

TrimSpace(s) == TrimLeft(TrimRight(s))

Quote(s) ==
    <<"\"">> \o [i \in 1..Len(s) |-> IF s[i] = "\n" THEN "\\n" ELSE s[i]] \o <<"\"">>

\* loggingReader.Read(p), when lr.reader answers a
loggingReader_Read(a) ==
    [data |-> a.data,
     err  |-> a.err,
     log  |-> IF Len(a.data) > 0 /\ Len(TrimSpace(a.data)) > 0
              THEN <<<<"Input: ">> \o Quote(TrimSpace(a.data))>>
              ELSE <<>>]

\* io.Copy calls Write for each chunk it read
LW_Write ==
    /\ reads = <<>>
    /\ flushes = <<>>
    /\ Len(writes) < MaxCalls
    /\ \E p \in Data : \E a \in WriterAnswers(p) :
          LET r == loggingWriter_Write(lwBuf, p, a)
          IN  /\ written' = written \o SubSeq(p, 1, a.n)
              /\ audit' = audit \o r.log
              /\ lwBuf' = r.buf
              /\ writes' = Append(writes, [p |-> p, calls |-> r.calls,
                                           wn |-> a.n, werr |-> a.err,
                                           n |-> r.n, err |-> r.err])
    /\ UNCHANGED <<machine, handlers, session, win, boot, flushes, reads>>

\* the copy is over: Flush
LW_Flush ==
    /\ reads = <<>>
    /\ flushes = <<>>
    /\ flushes' = <<IF Len(lwBuf) > 0 THEN <<lwBuf>> ELSE <<>>>>
    /\ audit' = audit \o flushes'[1]
    /\ lwBuf' = <<>>
    /\ UNCHANGED <<machine, handlers, session, win, boot, written, writes, reads>>

LR_Read ==
    /\ writes = <<>>
    /\ flushes = <<>>
    /\ Len(reads) < MaxCalls
    /\ \E a \in ReaderAnswers :
          LET r == loggingReader_Read(a)
          IN  /\ audit' = audit \o r.log
              /\ reads' = Append(reads, [wdata |-> a.data, werr |-> a.err,
                                         data |-> r.data, err |-> r.err])
    /\ UNCHANGED <<machine, handlers, session, win, boot, lwBuf, written, writes, flushes>>

InitLog ==
    /\ HostIdle
    /\ ServerIdle
    /\ LogIdle
    /\ SessionIdle
    /\ WinIdle
    /\ BootIdle

NextLog ==
    \/ LW_Write
    \/ LW_Flush
    \/ LR_Read

SpecLog == InitLog /\ [][NextLog]_vars

----------------------------------------------------------------------------
\* The window of a PTY session: the events of winCh and the goroutine of
\* handlePTY that applies them.

MaxResize == 2

\* a usual window, and one whose width does not fit 16 bits
Windows == {[w |-> 80, h |-> 24], [w |-> 65656, h |-> 40]}

Uint16(x) == x % 65536

\* setWinsize(f, w, h): TIOCSWINSZ with uint16(h) and uint16(w)
setWinsize(w, h) == [w |-> Uint16(w), h |-> Uint16(h)]

\* the client changes its window and the event is put on winCh; out is the
\* number of chunks the client has got so far
WindowChange ==
    /\ isPty
    /\ Writable
    /\ Len(arrived) < MaxResize
    /\ \E ev \in Windows :
          /\ winCh' = Append(winCh, ev)
          /\ arrived' = Append(arrived, [size |-> ev, out |-> Len(clientOut)])
    /\ UNCHANGED <<machine, handlers, session, boot, logw, ptyWin, applied>>

\* the goroutine takes the newest event and drops the ones before it
Resize_Apply_Newest ==
    /\ task["resize"] = "running"
    /\ winCh # <<>>
    /\ LET ev == winCh[Len(winCh)]
       IN  /\ ptyWin' = setWinsize(ev.w, ev.h)
           /\ applied' = Append(applied, [size |-> ptyWin', out |-> Len(clientOut)])
    /\ winCh' = <<>>
    /\ UNCHANGED <<machine, handlers, session, boot, logw, arrived>>

\* for ... := range winCh { setWinsize(f, Width, Height) }
Resize_Apply ==
    /\ task["resize"] = "running"
    /\ winCh # <<>>
    /\ LET ev == Head(winCh)
       IN  /\ ptyWin' = setWinsize(ev.w, ev.h)
           /\ applied' = Append(applied, [size |-> ptyWin', out |-> Len(clientOut)])
    /\ winCh' = Tail(winCh)
    /\ UNCHANGED <<machine, handlers, session, boot, logw, arrived>>

\* a PTY session that runs "echo hi", and its window
InitResize ==
    /\ HostIdle
    /\ ServerIdle
    /\ rawCommand = EchoHi
    /\ sessEnv = <<>>
    /\ hostEnv = <<Entry("A", "h")>>
    /\ isPty = TRUE
    /\ termType = Xterm
    /\ agentRequested = FALSE
    /\ HandlerIdle
    /\ WinIdle
    /\ BootIdle
    /\ LogIdle

NextResize ==
    \/ BuildCmd
    \/ Agent_NotRequested
    \/ HandlePTY_Start
    \/ HandlePTY_StartFails
    \/ HandlePTY_Wait
    \/ HandlePTY_StdoutFinished
    \/ HandlePTY_GraceElapsed
    \/ SendErr_Write
    \/ SendErr_Exit
    \/ Exit0
    \/ DeferSessionClose
    \/ CopyOut
    \/ CopyInEnds
    \/ ChildWriteOut
    \/ ChildExit
    \/ OrphanExit
    \/ ClientDisconnect
    \/ WindowChange
    \/ Resize_Apply
    \/ Resize_End

SpecResize == InitResize /\ [][NextResize]_vars

----------------------------------------------------------------------------
\* A PTY session with an interactive shell, and what the scheduler promises:
\* the handler goes on whenever it can, the ticker of the select fires, and a
\* copy goroutine whose read or write can return goes on.  Nothing promises
\* that the child, a process it left behind or the client ever do anything.

InitPty ==
    /\ HostIdle
    /\ ServerIdle
    /\ rawCommand = Interactive
    /\ sessEnv = <<>>
    /\ hostEnv = <<Entry("A", "h")>>
    /\ isPty = TRUE
    /\ termType = Xterm
    /\ agentRequested = FALSE
    /\ HandlerIdle
    /\ WinIdle
    /\ BootIdle
    /\ LogIdle

HandlerPty ==
    \/ BuildCmd
    \/ Agent_NotRequested
    \/ HandlePTY_Start
    \/ HandlePTY_StartFails
    \/ HandlePTY_Wait
    \/ HandlePTY_StdoutFinished
    \/ HandlePTY_GraceElapsed
    \/ SendErr_Write
    \/ SendErr_Exit
    \/ Exit0
    \/ DeferSessionClose

NextPty ==
    \/ HandlerPty
    \/ CopyOut
    \/ CopyInEnds
    \/ Resize_End
    \/ ChildWriteOut
    \/ ChildWriteErr
    \/ ChildExit
    \/ OrphanExit
    \/ ClientDisconnect

FairPty ==
    /\ WF_vars(HandlerPty)
    /\ WF_vars(CopyOut)
    /\ WF_vars(CopyInEnds)
    /\ WF_vars(Resize_End)

SpecPtyLive == InitPty /\ [][NextPty]_vars /\ FairPty

----------------------------------------------------------------------------
\* Sessions with a pty whose host or session environment has a TERM of its
\* own, with and without a terminal type in the pty request.

InitTerm ==
    /\ HostIdle
    /\ ServerIdle
    /\ rawCommand \in {EchoHi, BadCommand}
    /\ hostEnv \in {<<Entry("A", "h")>>, <<Entry("TERM", "h"), Entry("A", "h")>>}
    /\ sessEnv \in {<<>>, <<Entry("TERM", "s")>>}
    /\ isPty = TRUE
    /\ termType \in {<<>>, Xterm}
    /\ agentRequested \in BOOLEAN
    /\ HandlerIdle
    /\ WinIdle
    /\ BootIdle
    /\ LogIdle

NextTerm ==
    \/ NextPty
    \/ Agent_ListenerStarted
    \/ Agent_ListenerFailed
    \/ DeferListenerClose

SpecTerm == InitTerm /\ [][NextTerm]_vars

----------------------------------------------------------------------------
\* Properties of a session.

IsPrefix(s, t) == Len(s) <= Len(t) /\ SubSeq(t, 1, Len(s)) = s

\* the handler is past cmd.Wait of the bridge that started the child
Waited == proc # "none" /\ pc \notin {"pty_wait", "wg_wait", "cmd_wait"}

\* C1: when the child started and exited on its own with code N, every s.Exit
\* call of the session passes N, on the pty path as on the pipe path.
C1_ExitCodePropagated ==
    (proc = "exited" /\ prog.end.exited) =>
        /\ \A i \in 1..Len(exitCalls) : exitCalls[i] = prog.end.code
        /\ pc = "done" => exitCalls # <<>>

\* a pty session whose child exited with 3 has reported 3
C1_Witness ==
    /\ isPty
    /\ proc = "exited"
    /\ prog.end = [exited |-> TRUE, code |-> 3]
    /\ exitCalls = <<3>>

\* C2: when starting the child fails, no goroutine and no process wait is ever
\* started, one non-empty message is written to the error stream, and the
\* status reported is 1.
C2_StartFailure ==
    bridgeErr.op = "start" =>
        /\ proc = "none"
        /\ \A t \in TaskNames : task[t] = "idle"
        /\ pc \in {"send_err", "send_exit", "defer_l", "defer_s", "done"}
        /\ pc # "send_err" => Len(errWrites) = 1 /\ Len(errWrites[1]) > 0
        /\ pc \notin {"send_err", "send_exit"} => exitCalls = <<1>>
        /\ exitCalls \in {<<>>, <<1>>}

\* the shell could not be resolved, and the handler has returned after
\* reporting 1
C2_Witness ==
    /\ bridgeErr = ErrNotFound
    /\ pc = "done"
    /\ exitCalls = <<1>>
    /\ clientErr = <<"bash: executable file not found in $PATH">>

\* C3: s.Exit is called at most once in a session.
C3_ExitAtMostOnce == Len(exitCalls) <= 1

\* s.Exit has been called while the output goroutine of a pty session is
\* still copying
C3_Witness ==
    /\ Len(exitCalls) = 1
    /\ isPty
    /\ task["out"] = "running"

\* C4: when the handler has returned, s.Exit has been called exactly once,
\* whatever the path.
C4_ExitExactlyOnce == pc = "done" => Len(exitCalls) = 1

\* C5: on the pipe path the process is waited on, and the exit status
\* reported, only after both output goroutines are done; a client that
\* receives the status has received before it all the child wrote to stdout
\* and to stderr, in order ("echo hi": "hi\n", then status 0).
C5_PipeJoinBeforeExit ==
    (~isPty /\ proc # "none") =>
        /\ (pc = "cmd_wait" \/ Waited \/ exitCalls # <<>>) =>
               (task["out"] = "done" /\ task["err"] = "done")
        /\ clientStatus # <<>> =>
               /\ clientOut = prog.out
               /\ IsPrefix(prog.err, clientErr)
               /\ rawCommand = EchoHi => (clientOut = <<"hi\n">> /\ clientStatus = <<0>>)

\* "echo hi" without a pty: the client has "hi\n" and status 0
C5_Witness ==
    /\ ~isPty
    /\ rawCommand = EchoHi
    /\ clientOut = <<"hi\n">>
    /\ clientStatus = <<0>>

\* C6: on the pty path, whatever the child's exit code, the exit status is
\* reported only after the output goroutine is done or the grace period
\* has elapsed.
C6_PtyDrainBeforeExit ==
    (isPty /\ proc = "exited" /\ prog.end.exited /\ exitCalls # <<>>) =>
        (task["out"] = "done" \/ graceElapsed)

\* C7: when the handler has returned, it has closed the session.
C7_ClosedOnReturn == pc = "done" => closed

\* the handler has returned after the agent listener failed: closed, and no
\* s.Exit
C7_Witness ==
    /\ pc = "done"
    /\ closed
    /\ agentRequested
    /\ exitCalls = <<>>
    /\ proc = "none"
    /\ bridgeErr = Nil

\* C8: the argument vector is [shell] for the empty raw command, and
\* [shell, "-c", rawCommand] otherwise, the raw command in one piece.
C8_ArgVector ==
    pc # "begin" =>
        /\ Len(cmdArgs) >= 1
        /\ cmdArgs[1] = Shell
        /\ Len(rawCommand) = 0 => Len(cmdArgs) = 1
        /\ Len(rawCommand) > 0 =>
               /\ Len(cmdArgs) = 3
               /\ cmdArgs[2] = DashC
               /\ cmdArgs[3] = rawCommand

\* a raw command with a space and a semicolon has been built into three
\* arguments
C8_Witness ==
    /\ pc # "begin"
    /\ rawCommand = <<"x", " ", ";">>
    /\ Len(cmdArgs) = 3

\* the key of an entry "K=V", and its value
EnvKey(e) == e[1]

EnvVal(e) == SubSeq(e, 3, Len(e))

HasKey(env, k) == \E i \in 1..Len(env) : EnvKey(env[i]) = k

\* the value a process sees for k: that of the last entry with this key
Effective(env, k) ==
    EnvVal(env[CHOOSE i \in 1..Len(env) :
                  /\ EnvKey(env[i]) = k
                  /\ \A j \in (i + 1)..Len(env) : EnvKey(env[j]) # k])

\* C9: the environment is the host environment followed by the session's
\* entries, in order, none dropped; for a key of the session the session's
\* value is the effective one.
C9_Environment ==
    pc # "begin" =>
        /\ Len(cmdEnv) = Len(hostEnv) + Len(sessEnv)
        /\ \A i \in 1..Len(hostEnv) : cmdEnv[i] = hostEnv[i]
        /\ \A i \in 1..Len(sessEnv) : cmdEnv[Len(hostEnv) + i] = sessEnv[i]
        /\ \A k \in EnvKeys :
               HasKey(sessEnv, k) => Effective(cmdEnv, k) = Effective(sessEnv, k)

\* a key set by the host and by the session: the session's value is effective
C9_Witness ==
    /\ pc # "begin"
    /\ hostEnv = <<Entry("A", "h"), Entry("B", "h")>>
    /\ sessEnv = <<Entry("B", "s")>>
    /\ Effective(cmdEnv, "B") = <<"s">>
    /\ Effective(cmdEnv, "A") = <<"h">>

\* C10, as claimed: a session without a pty whose command names no executable
\* reports status 1, with a non-empty message on the error stream and
\* nothing on stdout.
C10_BadCommandStatusOne ==
    (~isPty /\ rawCommand = BadCommand /\ exitCalls # <<>>) =>
        /\ exitCalls = <<1>>
        /\ clientOut = <<>>
        /\ clientStatus # <<>> => clientErr # <<>>

\* C10, amended: the status reported is the shell's, 127, once the shell has
\* run, and 1 only when no child was started; the error stream has non-empty
\* content and stdout has nothing.
C10_BadCommandShellStatus ==
    (~isPty /\ rawCommand = BadCommand /\ exitCalls # <<>>) =>
        /\ exitCalls = <<IF proc = "none" THEN 1 ELSE 127>>
        /\ clientOut = <<>>
        /\ Len(errWrites) = 1 /\ Len(errWrites[1]) > 0
        /\ clientStatus # <<>> => clientErr # <<>>

\* the shell ran the bad command: its complaint, the handler's message and
\* status 127 have reached the client
C10_Witness ==
    /\ ~isPty
    /\ rawCommand = BadCommand
    /\ clientStatus = <<127>>
    /\ clientOut = <<>>
    /\ clientErr = <<"sh: badcommand: command not found\n", "exit status ", "127">>

----------------------------------------------------------------------------
\* Properties of main and of the authorized keys.

KeyLinesOf(lines) == SelectSeq(lines, LAMBDA l : l.kind = "key")

KeysOf(lines) == [i \in 1..Len(KeyLinesOf(lines)) |-> KeyLinesOf(lines)[i].key]

\* C11: Server.authorize answers true exactly when the offered key is
\* ssh.KeysEqual to an entry of srv.AuthorizedKeys, at whatever position, and
\* false for every other key; the list stays what main put there.
C11_AuthorizeMembership ==
    /\ \A i \in 1..Len(auths) :
          auths[i].ok <=>
             \E j \in 1..Len(srv.AuthorizedKeys.list) :
                Marshal(srv.AuthorizedKeys.list[j]) = Marshal(auths[i].key)
    /\ mainPc = "serving" => srv.AuthorizedKeys = keys

\* a key that equals the second entry only was accepted, then a key that
\* equals none was turned down
C11_Witness ==
    /\ Len(srv.AuthorizedKeys.list) >= 2
    /\ srv.AuthorizedKeys.list[1] = BadKey
    /\ srv.AuthorizedKeys.list[2] = GoodKey
    /\ Len(auths) = 2
    /\ auths[1] = [key |-> GoodKey, ok |-> TRUE]
    /\ auths[2] = [key |-> Key("other"), ok |-> FALSE]

\* C12: LoadAuthorizedKeys returns nil and no error for a missing file, an
\* error for a file that yields no key, an error and no key as soon as one
\* line fails to parse, and otherwise the keys of the file, in file order.
C12_LoadResult ==
    mainPc # "load" =>
       /\ keysFile.state = "missing" => keys.isNil /\ loadErr = "nil"
       /\ keysFile.state = "present" /\ KeyLinesOf(keysFile.lines) = <<>>
             => loadErr # "nil"
       /\ keysFile.state = "present"
             /\ (\E i \in 1..Len(keysFile.lines) : keysFile.lines[i] = Garbage)
             => loadErr # "nil" /\ keys.isNil
       /\ keysFile.state = "present" /\ KeyLinesOf(keysFile.lines) # <<>>
             /\ (\A i \in 1..Len(keysFile.lines) : keysFile.lines[i] # Garbage)
             => loadErr = "nil" /\ ~keys.isNil
                /\ keys.list = KeysOf(keysFile.lines)

C20_Startup ==
    /\ loadErr # "nil" => mainPc = "fatal" /\ ~gate
    /\ mainPc \in {"construct", "serve", "serving"} => loadErr = "nil"
    /\ mainPc = "serving" => (gate <=> ~keys.isNil)

\* a key, then a line that holds none: main stopped at the load
C20_Witness ==
    /\ keysFile.state = "present"
    /\ keysFile.lines = <<KeyLine(GoodKey, "test@example.com"), Garbage>>
    /\ loadErr = "ssh: no key found"
    /\ mainPc = "fatal"

----------------------------------------------------------------------------
\* Properties of the logging interceptors.

\* the newline-terminated lines of s that are not empty, without the newline
RECURSIVE CompleteLines(_, _)
CompleteLines(s, line) ==
    IF s = <<>> THEN <<>>
    ELSE IF Head(s) = "\n"
         THEN (IF line = <<>> THEN <<>> ELSE <<line>>) \o CompleteLines(Tail(s), <<>>)
         ELSE CompleteLines(Tail(s), Append(line, Head(s)))

\* the bytes of s after its last newline
Unterminated(s) == SubSeq(s, LastIndexByte(s) + 1, Len(s))

\* C14: Write hands exactly p to the wrapped writer, once, and returns the
\* wrapped writer's (n, err) as they are, short writes and errors too; Read
\* returns the wrapped reader's bytes and (n, err) as they are.
C14_PassThrough ==
    /\ \A i \in 1..Len(writes) :
          /\ writes[i].calls = <<writes[i].p>>
          /\ writes[i].n = writes[i].wn
          /\ writes[i].err = writes[i].werr
    /\ \A i \in 1..Len(reads) :
          /\ reads[i].data = reads[i].wdata
          /\ reads[i].err = reads[i].werr

\* a short write with its error, and a read that ends with EOF
C14_Witness ==
    \/ /\ Len(writes) = 2
       /\ writes[2].p = <<"a", "\n">>
       /\ writes[2].n = 1
       /\ writes[2].err = "closed pipe"
       /\ written = <<"b", "a">>
    \/ /\ Len(reads) = 1
       /\ reads[1].data = <<"a">>
       /\ reads[1].err = "EOF"

\* C15: the audit entries are the newline-terminated lines of the bytes
\* written, each once and in order, without the newline; the bytes after the
\* last newline give no entry before Flush, and one entry at Flush.  (Stated
\* for the lines that are not empty.)
C15_OneEntryPerLine ==
    /\ flushes = <<>> => audit = CompleteLines(written, <<>>)
    /\ flushes # <<>> =>
          audit = CompleteLines(written, <<>>)
                  \o (IF Unterminated(written) = <<>> THEN <<>>
                      ELSE <<Unterminated(written)>>)

\* C16: the bytes written since the last newline stay in lw.buf from one
\* Write to the next, and Flush logs exactly those bytes as one entry.
C16_FlushEmitsRemainder ==
    /\ flushes = <<>> => lwBuf = Unterminated(written)
    /\ flushes # <<>> =>
          flushes[1] = (IF Unterminated(written) = <<>> THEN <<>>
                        ELSE <<Unterminated(written)>>)

----------------------------------------------------------------------------
\* Properties of the exit status of a failed bridge.

\* C17: when the child was ended by a signal, or the bridge failed with an
\* error that is not an *exec.ExitError, the status handed to s.Exit is 1.
C17_SignalStatusOne ==
    /\ bridgeErr # Nil
    /\ bridgeErr.type # "exec.ExitError" \/ ~bridgeErr.exited
    /\ exitCalls # <<>>
    => exitCalls[1] = 1

\* C18: after handlePTY or handleNoTTY returned an error the handler writes
\* the error's text, which is not empty, to s.Stderr() and then calls s.Exit
\* with a status that is not 0; it does not return without the two.
C18_BridgeErrorReported ==
    bridgeErr # Nil =>
       /\ exitCalls # <<>> =>
             /\ Len(exitCalls) = 1
             /\ exitCalls[1] # 0
             /\ Len(errWrites) = 1
             /\ Len(errWrites[1]) > 0
       /\ pc \in {"defer_l", "defer_s", "done"} => exitCalls # <<>>

\* a pipe could not be acquired: the message, then status 1
C18_Witness ==
    /\ bridgeErr = ErrPipe
    /\ proc = "none"
    /\ errWrites = <<TrimPrefix(ErrPipe.text, "exec: ")>>
    /\ exitCalls = <<1>>
    /\ pc = "done"

----------------------------------------------------------------------------
\* Properties of the window of a PTY session.

\* the window sizes of a sequence of events, as 16 bit numbers
Sizes(events) == [i \in 1..Len(events) |-> setWinsize(events[i].size.w, events[i].size.h)]

\* C19 as stated: the events of winCh are applied to the pty in arrival
\* order, and the client gets no pty output between the arrival of an event
\* and its application.  (Sizes are compared as the 16 bit numbers the pty
\* holds.)
C19_ResizeBeforeOutput ==
    /\ IsPrefix(Sizes(applied), Sizes(arrived))
    /\ \A i \in 1..Len(arrived) :
          IF i <= Len(applied)
          THEN applied[i].out = arrived[i].out
          ELSE task["resize"] = "running" => Len(clientOut) = arrived[i].out

\* C19, amended: the events are applied in arrival order, none skipped and
\* none twice, each with its width and height cut to 16 bits, and the pty's
\* window is that of the event applied last.
C19_ResizeInOrder ==
    /\ IsPrefix(Sizes(applied), Sizes(arrived))
    /\ Len(winCh) = Len(arrived) - Len(applied)
    /\ ptyWin = (IF applied = <<>> THEN NoWindow ELSE applied[Len(applied)].size)

\* two events applied in their order, the second one after the client got
\* output that the pty produced while the event was waiting
C19_Witness ==
    /\ Len(applied) = 2
    /\ arrived[1].size # arrived[2].size
    /\ ptyWin = [w |-> 120, h |-> 40]
    /\ arrived[2].out = 0
    /\ applied[2].out = 1
    /\ clientOut = <<"hi\n">>

----------------------------------------------------------------------------
\* Properties of main's port.

\* C21: with OKTETO_REMOTE_PORT set to something that is no number, or to a
\* number of 1024 or less, main ends before the server listens; with the
\* variable unset the server listens on port 2222.
C21_PortStartup ==
    /\ portEnv.ok /\ portEnv.p \in NotNumbers \cup ReservedPorts
          => mainPc \in {"port", "panic"} /\ addr = 0 /\ srv = NoServer
    /\ ~portEnv.ok /\ mainPc = "serving" => addr = 2222

\* 1024 is turned down
C21_Witness ==
    /\ portEnv = [ok |-> TRUE, p |-> <<"1", "0", "2", "4">>]
    /\ port = 1024
    /\ mainPc = "panic"

----------------------------------------------------------------------------
\* Properties of the resources and the goroutines of a session.

\* C22: when the handler has returned it holds nothing any more: the pty
\* master, the child's pipes and the agent listener are closed.
C22_ReleasedOnReturn == pc = "done" => open = {}

\* C23: once the child of a PTY session has ended, the handler returns: the
\* select of handlePTY does not wait for the output goroutine longer than its
\* ticker, whatever keeps the pty open.
C23_PtyReturnsAfterChild == (isPty /\ proc = "exited") ~> (pc = "done")

\* the handler is back although a process the child left behind keeps the
\* pty open and the output goroutine is still reading
C23_Witness ==
    /\ isPty
    /\ proc = "exited"
    /\ orphan
    /\ task["out"] = "running"
    /\ graceElapsed
    /\ exitCalls = <<0>>
    /\ pc = "done"

\* C24: once the session is closed, every goroutine started for it ends.
C24_TasksEnd == closed ~> (\A t \in TaskNames : task[t] # "running")

----------------------------------------------------------------------------
\* Agent forwarding

AuthSock == Sprintf_KV("SSH_AUTH_SOCK", <<"/tmp/auth-agent/listener.sock">>)

\* C25: with agent forwarding requested, a handler that has passed the agent
\* step without a listener has spawned no child, started no task of either
\* bridge and called no s.Exit; a child that was spawned has
\* SSH_AUTH_SOCK=<address> in its environment, right after the host and
\* session entries; and the listener is closed when the handler has returned.
C25_AgentForwarding ==
    /\ (agentRequested /\ pc \notin {"begin", "agent"}
            /\ ~HasKey(cmdEnv, "SSH_AUTH_SOCK")) =>
           /\ pc \in {"defer_s", "done"}
           /\ proc = "none"
           /\ \A t \in TaskNames : task[t] = "idle"
           /\ open = {}
           /\ exitCalls = <<>>
    /\ (agentRequested /\ proc # "none") =>
           /\ Len(cmdEnv) > Len(hostEnv) + Len(sessEnv)
           /\ cmdEnv[Len(hostEnv) + Len(sessEnv) + 1] = AuthSock
    /\ pc = "done" => "listener" \notin open

\* a session with agent forwarding whose child ran with the listener's
\* address, the handler returned and the listener closed
C25_Witness ==
    /\ agentRequested
    /\ pc = "done"
    /\ proc = "exited"
    /\ HasKey(cmdEnv, "SSH_AUTH_SOCK")
    /\ Effective(cmdEnv, "SSH_AUTH_SOCK") = <<"/tmp/auth-agent/listener.sock">>
    /\ "listener" \notin open

----------------------------------------------------------------------------
\* The dispatch of connectionHandler

PtyPcs == {"pty_wait", "pty_select"}

PipePcs == {"pipe_stderr", "pipe_stdin", "start", "wg_wait", "cmd_wait"}

\* what only handlePTY leaves behind: the pty and the resize goroutine
PtyBridgeRan == "ptmx" \in open \/ task["resize"] # "idle" \/ pc \in PtyPcs

\* what only handleNoTTY leaves behind: pipes and the stderr goroutine
PipeBridgeRan == open \cap Pipes # {} \/ task["err"] # "idle" \/ pc \in PipePcs

\* C26: the handler passes the dispatch once, into handlePTY when the session
\* has a pty and into handleNoTTY when it has none; the other bridge leaves
\* no trace in the session; a child is spawned only by a bridge and only
\* when none was spawned before, and a child once spawned is never replaced.
C26_OneBridgeOneChild ==
    [][/\ (pc = "dispatch" /\ pc' # "dispatch") =>
              IF isPty THEN pc' \in {"pty_wait", "send_err"}
                       ELSE pc' \in {"pipe_stderr", "send_err"}
       /\ pc' = "dispatch" => pc \in {"agent", "dispatch"}
       /\ PtyBridgeRan' => (isPty /\ ~PipeBridgeRan')
       /\ PipeBridgeRan' => (~isPty /\ ~PtyBridgeRan')
       /\ (proc' = "running" /\ proc # "running") =>
              (proc = "none" /\ pc \in {"dispatch", "start"})
       /\ proc # "none" => (proc' # "none" /\ prog' = prog)
       /\ proc = "exited" => proc' = "exited"]_vars

\* a session with a pty whose only child has run and ended, the handler
\* returned, nothing of the pipe bridge in it
C26_Witness ==
    /\ isPty
    /\ pc = "done"
    /\ proc = "exited"
    /\ PtyBridgeRan
    /\ ~PipeBridgeRan
    /\ exitCalls = <<0>>
    /\ ~agentRequested
    /\ ~graceElapsed

----------------------------------------------------------------------------
\* The input goroutine of handleNoTTY

\* C27: in a session without a pty, once the input goroutine has ended the
\* child's stdin pipe is closed.
C27_StdinClosedAfterInput ==
    (~isPty /\ task["in"] = "done") => "stdin" \notin open

\* the input goroutine has ended while the child still runs and the handler
\* still waits for the output goroutines: the stdin pipe is closed, the other
\* two are not
C27_Witness ==
    /\ ~isPty
    /\ task["in"] = "done"
    /\ proc = "running"
    /\ pc = "wg_wait"
    /\ open \cap Pipes = {"stdout", "stderr"}

\* C28: in a session without a pty the handler's way to the exit status never
\* waits for the input goroutine: with both output goroutines done wg.Wait
\* returns, with the child ended cmd.Wait returns, and the report follows,
\* whatever the input goroutine does; the status reported is that of the
\* error of cmd.Wait alone, after both output goroutines are done and the
\* child is waited on.
C28_StatusWithoutInput ==
    (~isPty /\ proc # "none") =>
        /\ (pc = "wg_wait" /\ task["out"] = "done" /\ task["err"] = "done") =>
               ENABLED HandleNoTTY_WgWait
        /\ (pc = "cmd_wait" /\ proc = "exited") => ENABLED HandleNoTTY_Wait
        /\ pc = "send_err" => ENABLED SendErr_Write
        /\ pc = "send_exit" => ENABLED SendErr_Exit
        /\ pc = "exit0" => ENABLED Exit0
        /\ exitCalls # <<>> =>
               /\ task["out"] = "done" /\ task["err"] = "done"
               /\ proc = "exited"
               /\ Waited
               /\ \A i \in 1..Len(exitCalls) :
                      exitCalls[i] = getExitStatusFromError(WaitError(prog.end))

\* the client has the status of a child that exited with a code other than 0
\* while the input goroutine still runs, the handler returned
C28_Witness ==
    /\ ~isPty
    /\ proc = "exited"
    /\ prog.end.exited
    /\ prog.end.code # 0
    /\ clientStatus = <<prog.end.code>>
    /\ task["in"] = "running"
    /\ pc = "done"

----------------------------------------------------------------------------
\* TERM

\* cmd.Env at the call of handlePTY: host entries, session entries, and the
\* agent's socket when there is one
EnvAtDispatch ==
    BuildEnv(hostEnv, sessEnv)
        \o (IF HasKey(cmdEnv, "SSH_AUTH_SOCK") THEN <<AuthSock>> ELSE <<>>)

\* the handler has called handlePTY
EnteredPty ==
    /\ isPty
    /\ pc \notin {"begin", "agent", "dispatch"}
    /\ agentRequested => HasKey(cmdEnv, "SSH_AUTH_SOCK")

\* C29: once handlePTY is entered, with a non-empty terminal type cmd.Env is
\* the environment it was called with plus one last entry TERM=<termType>,
\* which is the TERM the child sees whatever TERM host or session set; with an
\* empty terminal type cmd.Env is the environment it was called with.
C29_TermAppended ==
    EnteredPty =>
        IF Len(termType) > 0
        THEN /\ cmdEnv = Append(EnvAtDispatch, <<"TERM", "=">> \o termType)
             /\ Effective(cmdEnv, "TERM") = termType
        ELSE cmdEnv = EnvAtDispatch

\* host and session both set TERM, the pty request says xterm: the child
\* runs with TERM=xterm
C29_Witness ==
    /\ EnteredPty
    /\ proc = "running"
    /\ HasKey(hostEnv, "TERM")
    /\ HasKey(sessEnv, "TERM")
    /\ termType = Xterm
    /\ Effective(cmdEnv, "TERM") = Xterm

----------------------------------------------------------------------------
\* Flush

\* the goroutine whose io.Copy writes into the loggingWriter n
TaskOf(n) ==
    IF n \in {"loggedPtyIn", "loggedStdin"} THEN "in"
    ELSE IF n = "loggedStderr" THEN "err"
    ELSE "out"

\* C30: every loggingWriter the session created whose copy goroutine has
\* ended has had its Flush called.
C30_FlushedAfterCopy ==
    \A n \in Interceptors :
        (interceptors[n] # "none" /\ task[TaskOf(n)] = "done") =>
            interceptors[n] = "flushed"

----------------------------------------------------------------------------
\* The server with its sessions: gliderlabs/ssh runs Server.connectionHandler
\* in a goroutine of its own for each session it accepts.  Each handler is
\* followed through its returns; the bridges are taken as one step that
\* returns their error.

\* what handlePTY or handleNoTTY returns: nil, an error of the start, an
\* error of cmd.Wait
BridgeErrors(pty) ==
    {Nil, ErrNotFound, ExitErr(3), SignalErr} \cup (IF pty THEN {} ELSE {ErrPipe})

\* the bridge got as far as spawning the child
Spawns(err) == err.op \notin {"start", "pipe"}

\* the server accepts a session and starts its handler
Conn_Begin(i) ==
    /\ mainPc = "serving"
    /\ handlers[i].pc = "idle"
    /\ \E p \in BOOLEAN, a \in BOOLEAN :
          handlers' = [handlers EXCEPT ![i].pc = "agent", ![i].isPty = p,
                                       ![i].agentRequested = a]
    /\ UNCHANGED <<machine, session, win, boot, logw>>

\* a listener that cannot start takes the whole process down
Conn_Agent_Fatal(i) ==
    /\ mainPc = "serving"
    /\ handlers[i].pc = "agent"
    /\ \/ /\ ~handlers[i].agentRequested
          /\ handlers' = [handlers EXCEPT ![i].pc = "dispatch"]
          /\ UNCHANGED mainPc
       \/ /\ handlers[i].agentRequested
          /\ handlers' = [handlers EXCEPT ![i].pc = "dispatch", ![i].listener = TRUE]
          /\ UNCHANGED mainPc
       \/ /\ handlers[i].agentRequested
          /\ mainPc' = "fatal"
          /\ UNCHANGED handlers
    /\ UNCHANGED <<machine, session, win, logw, keysFile, keys, loadErr, srv, gate, auths,
                   portEnv, port, addr>>

\* if ssh.AgentRequested(s): the listener starts, or it fails and the handler
\* returns
Conn_Agent(i) ==
    /\ mainPc = "serving"
    /\ handlers[i].pc = "agent"
    /\ \/ /\ ~handlers[i].agentRequested
          /\ handlers' = [handlers EXCEPT ![i].pc = "dispatch"]
       \/ /\ handlers[i].agentRequested
          /\ handlers' = [handlers EXCEPT ![i].pc = "dispatch", ![i].listener = TRUE]
       \/ /\ handlers[i].agentRequested
          /\ handlers' = [handlers EXCEPT ![i].pc = "return"]
    /\ UNCHANGED <<machine, session, win, boot, logw>>

\* handlePTY or handleNoTTY, from its call to its return
Conn_Bridge(i) ==
    /\ mainPc = "serving"
    /\ handlers[i].pc = "dispatch"
    /\ \E err \in BridgeErrors(handlers[i].isPty) :
          handlers' = [handlers EXCEPT
                          ![i].err = err,
                          ![i].spawned = IF Spawns(err) THEN @ + 1 ELSE @,
                          ![i].pc = IF err.type = "nil" THEN "exit0" ELSE "send_err"]
    /\ UNCHANGED <<machine, session, win, boot, logw>>

\* sendErrAndExit(logger, s, err), and the return after it
Conn_SendErrAndExit(i) ==
    /\ mainPc = "serving"
    /\ handlers[i].pc = "send_err"
    /\ handlers' = [handlers EXCEPT
                       ![i].errWrites = Append(@, TrimPrefix(handlers[i].err.text, "exec: ")),
                       ![i].exitCalls = Append(@, getExitStatusFromError(handlers[i].err)),
                       ![i].pc = "return"]
    /\ UNCHANGED <<machine, session, win, boot, logw>>

\* s.Exit(0), and the return after it
Conn_Exit0(i) ==
    /\ mainPc = "serving"
    /\ handlers[i].pc = "exit0"
    /\ handlers' = [handlers EXCEPT ![i].exitCalls = Append(@, 0), ![i].pc = "return"]
    /\ UNCHANGED <<machine, session, win, boot, logw>>

\* the deferred calls: l.Close() when the listener started, then s.Close()
Conn_Return(i) ==
    /\ mainPc = "serving"
    /\ handlers[i].pc = "return"
    /\ handlers' = [handlers EXCEPT ![i].listener = FALSE, ![i].closed = TRUE,
                                    ![i].pc = "done"]
    /\ UNCHANGED <<machine, session, win, boot, logw>>

InitServer ==
    /\ HostIdle
    /\ ServerIdle
    /\ keysFile \in {f \in Files : Len(f.lines) <= 1}
    /\ mainPc = "load"
    /\ keys = NilKeys
    /\ loadErr = "nil"
    /\ srv = NoServer
    /\ gate = FALSE
    /\ auths = <<>>
    /\ portEnv = Unset
    /\ port = DefaultPort
    /\ addr = 0
    /\ SessionIdle
    /\ WinIdle
    /\ LogIdle

NextServer ==
    \/ Main_Load
    \/ Main_Server
    \/ Main_ListenAndServe
    \/ Authorize
    \/ \E i \in Sessions : Conn_Begin(i)
    \/ \E i \in Sessions : Conn_Agent(i)
    \/ \E i \in Sessions : Conn_Bridge(i)
    \/ \E i \in Sessions : Conn_SendErrAndExit(i)
    \/ \E i \in Sessions : Conn_Exit0(i)
    \/ \E i \in Sessions : Conn_Return(i)

SpecServer == InitServer /\ [][NextServer]_vars

\* what a handler that has returned has told its client, by the error its own
\* bridge returned
OwnOutcome(h) ==
    IF h.spawned = 0 /\ h.err.type = "nil"
    THEN h.exitCalls = <<>> /\ h.errWrites = <<>>
    ELSE /\ h.exitCalls = <<getExitStatusFromError(h.err)>>
         /\ h.errWrites = IF h.err.type = "nil" THEN <<>>
                          ELSE <<TrimPrefix(h.err.text, "exec: ")>>

\* C31: while the server serves, no step ends it or changes the server it
\* built or the keys it loaded; a step that changes one session leaves every
\* other session as it was; a handler that has returned has closed its
\* session and has reported what its own bridge returned; and every answer
\* of authorize is the answer for the keys main loaded.
C31_SessionsIsolated ==
    [][mainPc = "serving" =>
          /\ mainPc' = "serving"
          /\ srv' = srv /\ keys' = keys /\ gate' = gate
          /\ srv.AuthorizedKeys = keys
          /\ \A i \in Sessions :
                handlers'[i] # handlers[i] =>
                    \A j \in Sessions \ {i} : handlers'[j] = handlers[j]
          /\ \A i \in Sessions :
                handlers'[i].pc = "done" =>
                    (handlers'[i].closed /\ OwnOutcome(handlers'[i]))
          /\ \A n \in 1..Len(auths') :
                auths'[n].ok = authorize(keys.list, auths'[n].key)]_vars

\* one session failed at its agent listener, the other ran its child to a
\* good end and reported status 0; the server still serves
C31_Witness ==
    /\ mainPc = "serving"
    /\ handlers["alice"].pc = "done"
    /\ handlers["alice"].agentRequested
    /\ handlers["alice"].spawned = 0
    /\ handlers["alice"].exitCalls = <<>>
    /\ handlers["bob"].pc = "done"
    /\ handlers["bob"].spawned = 1
    /\ handlers["bob"].exitCalls = <<0>>
    /\ handlers["bob"].closed
    /\ auths # <<>>

----------------------------------------------------------------------------
\* AssertBash, package os

MaxIds == 2

\* the values of the lines of /etc/os-release that begin with ID=
IdValues == {"ubuntu", "debian", "centos", "alpine", "arch"}

Releases ==
    {[state |-> st, ids |-> <<>>] : st \in {"missing", "directory", "unreadable"}}
        \cup {[state |-> "present", ids |-> l] : l \in SeqsUpTo(IdValues, MaxIds)}

\* the executables a host may have on its PATH
Executables == {"bash", "bush"}

ErrNoBash == "bash needs to be available in the $PATH of your development environment"

ErrDetect == "failed to detect the local distribution"

\* fromOSRelease: the first ID= line decides, but for ubuntu, whose case is
\* empty, so that the loop goes on to the next line
RECURSIVE fromOSRelease(_)
fromOSRelease(ids) ==
    IF ids = <<>> THEN "unknown"
    ELSE IF Head(ids) = "ubuntu" THEN fromOSRelease(Tail(ids))
    ELSE IF Head(ids) \in {"debian", "centos", "alpine"} THEN Head(ids)
    ELSE "unknown"

\* getDistribution
getDistribution(r) ==
    IF r.state \in {"missing", "directory"} THEN [d |-> "unknown", err |-> "nil"]
    ELSE IF r.state = "unreadable" THEN [d |-> "", err |-> "read"]
    ELSE [d |-> fromOSRelease(r.ids), err |-> "nil"]

\* the two commands AssertBash runs for a distribution
UpdateCmd(d) ==
    IF d = "debian" THEN <<"apt-get", "update">>
    ELSE IF d = "alpine" THEN <<"apk", "update", "--no-cache">>
    ELSE <<"yum", "-y", "update">>

InstallCmd(d) ==
    IF d = "debian" THEN <<"apt-get", "install", "-y">>
    ELSE IF d = "alpine" THEN <<"apk", "add", "bash">>
    ELSE <<"yum", "install", "-y", "bash">>

\* if p, err := exec.LookPath(...); err == nil { return nil }
AssertBash_LookPath ==
    /\ assertPc = "lookpath"
    /\ IF "bush" \in onPath
       THEN assertPc' = "done" /\ assertErr' = "nil"
       ELSE assertPc' = "distribution" /\ UNCHANGED assertErr
    /\ UNCHANGED <<onPath, release, ran>>
    /\ UNCHANGED <<session, win, boot, logw, handlers>>

\* d, err := getDistribution(), and the two returns after it
AssertBash_Distribution ==
    /\ assertPc = "distribution"
    /\ LET r == getDistribution(release)
       IN  IF r.err # "nil" THEN assertPc' = "done" /\ assertErr' = ErrDetect
           ELSE IF r.d = "unknown" THEN assertPc' = "done" /\ assertErr' = ErrNoBash
           ELSE assertPc' = "update" /\ UNCHANGED assertErr
    /\ UNCHANGED <<onPath, release, ran>>
    /\ UNCHANGED <<session, win, boot, logw, handlers>>

\* the update command of the distribution
AssertBash_Update ==
    /\ assertPc = "update"
    /\ ran' = Append(ran, UpdateCmd(getDistribution(release).d))
    /\ \/ assertPc' = "install" /\ UNCHANGED assertErr
       \/ assertPc' = "done" /\ assertErr' = ErrNoBash
    /\ UNCHANGED <<onPath, release>>
    /\ UNCHANGED <<session, win, boot, logw, handlers>>

\* the install command of the distribution
AssertBash_Install ==
    /\ assertPc = "install"
    /\ ran' = Append(ran, InstallCmd(getDistribution(release).d))
    /\ assertErr' \in {"nil", ErrNoBash}
    /\ assertPc' = "done"
    /\ UNCHANGED <<onPath, release>>
    /\ UNCHANGED <<session, win, boot, logw, handlers>>

InitBash ==
    /\ onPath \in SUBSET Executables
    /\ release \in Releases
    /\ assertPc = "lookpath"
    /\ ran = <<>>
    /\ assertErr = "nil"
    /\ ServerIdle
    /\ BootIdle
    /\ SessionIdle
    /\ WinIdle
    /\ LogIdle

NextBash ==
    \/ AssertBash_LookPath
    \/ AssertBash_Distribution
    \/ AssertBash_Update
    \/ AssertBash_Install

SpecBash == InitBash /\ [][NextBash]_vars

\* C32: when bash is on the PATH AssertBash is called with, AssertBash
\* returns nil and has run no command; a command is run only when bash is
\* not on that PATH.
C32_BashFoundNoInstall ==
    /\ ("bash" \in onPath /\ assertPc = "done") => (assertErr = "nil" /\ ran = <<>>)
    /\ ran # <<>> => "bash" \notin onPath

----------------------------------------------------------------------------
\* The callers of each loggingWriter

\* C33: whatever the interleaving, the only goroutine that ever calls Write
\* or Flush of a loggingWriter is the one that copies into it, so no two
\* goroutines are ever in the same instance; a loggingWriter that was not
\* created has no caller.
C33_OneCallerPerWriter ==
    \A n \in Interceptors :
        /\ lwCallers[n] \subseteq {TaskOf(n)}
        /\ interceptors[n] = "none" => lwCallers[n] = {}
        /\ interceptors[n] = "flushed" => lwCallers[n] = {TaskOf(n)}

\* a session without a pty whose three loggingWriters have each been
\* written and flushed, each by its own goroutine
C33_Witness ==
    /\ ~isPty
    /\ lwCallers["loggedStdin"] = {"in"}
    /\ lwCallers["loggedStdout"] = {"out"}
    /\ lwCallers["loggedStderr"] = {"err"}
    /\ \A n \in PipeInterceptors : interceptors[n] = "flushed"
    /\ clientOut # <<>>
    /\ clientErr # <<>>

----------------------------------------------------------------------------
\* A child that exits with a code other than 0

\* err.Error() of the *exec.ExitError for exit code n
ExitStatusText(n) == <<"exit status ", ToString(n)>>

\* C34: for a child that ran and exited with code N, N not 0, the handler's
\* only write to s.Stderr() is "exit status N", made before its one s.Exit
\* call, which passes N; without a pty the write comes after the stderr
\* goroutine is done, so that a client that is still there has all of the
\* child's stderr and then the message.  For a child that exited with 0 the
\* handler writes nothing to s.Stderr().
C34_NonZeroExitReported ==
    (proc = "exited" /\ prog.end.exited) =>
        IF prog.end.code # 0
        THEN /\ errWrites \in {<<>>, <<ExitStatusText(prog.end.code)>>}
             /\ exitCalls \in {<<>>, <<prog.end.code>>}
             /\ exitCalls # <<>> => errWrites # <<>>
             /\ pc \in {"defer_l", "defer_s", "done"} => exitCalls # <<>>
             /\ (~isPty /\ errWrites # <<>>) =>
                    /\ task["err"] = "done"
                    /\ \E k \in 0..Len(prog.err) :
                          clientErr \in {SubSeq(prog.err, 1, k),
                                         SubSeq(prog.err, 1, k)
                                             \o ExitStatusText(prog.end.code)}
                    /\ Writable =>
                          clientErr = prog.err \o ExitStatusText(prog.end.code)
             /\ (isPty /\ errWrites # <<>> /\ Writable) =>
                    clientErr = ExitStatusText(prog.end.code)
        ELSE /\ errWrites = <<>>
             /\ IF isPty THEN clientErr = <<>> ELSE IsPrefix(clientErr, prog.err)

\* "badcommand" without a pty: the client has the shell's complaint, then
\* "exit status 127", then status 127
C34_Witness ==
    /\ ~isPty
    /\ rawCommand = BadCommand
    /\ proc = "exited"
    /\ clientErr = <<"sh: badcommand: command not found\n", "exit status ", "127">>
    /\ errWrites = <<ExitStatusText(127)>>
    /\ clientStatus = <<127>>
    /\ pc = "done"

====
